---------------------------- MODULE Spec2Model ----------------------------
(***************************************************************************)
(* The tick-driven Audioscrobbler 1.2 client of legacy_scrobbler:          *)
(* LegacyScrobbler (clients/legacy.py) on top of Network (network.py) and  *)
(* Delay (delay.py).  The host calls add_listens, send_nowplaying and      *)
(* tick; the remote server and the wall clock are the environment.         *)
(***************************************************************************)
EXTENDS Integers, Sequences, FiniteSets, TLC

(***************************************************************************)
(* Bounds of the model.                                                    *)
(***************************************************************************)
\* number of distinct Listen objects the host owns
NumListens == 2
\* the host hands single listens to add_listens while the queue stays within
\* this length
MaxQueue == 2
\* length of the bulk iterable (a log import) handed to one add_listens call;
\* it is handed over only while fewer than MaxQueue listens are queued
BulkLen == 50
\* clock units per second (the clock has sub-second resolution)
UnitsPerSecond == 2
\* time one HTTP exchange takes, in clock units
ExchangeDuration == 1
\* the server is asked for a handshake at most this often
MaxHandshakes == 2
\* handshake attempts of a host that keeps retrying
MaxAttempts == 9
\* listens queued before the first tick() of a host that drains its queue
MaxLoad == 120
\* calls of tick() by that host
MaxTicks == 5
\* calls of Delay.update() and Delay.start() by a host that uses a Delay
MaxUpdates == 1
\* calls of add_listens by a host whose listens are accounted for
MaxAdds == 2
\* handshake attempts before the server recovers
MaxRetries == 3

(***************************************************************************)
(* Program constants.                                                      *)
(***************************************************************************)
\* itertools.islice(self.queue, 0, 50) / islice(self.queue, 50, None)
BatchSize == 50
\* _in_case_of_failure: fall back to handshake phase if failure count >= 3
MaxHardFails == 3
\* Delay options given by ScrobbleClientInterface.__init__
DelayBase == 60
DelayMax == 7200
DelayMultiplier == 2
\* datetime.timedelta: seconds of one day (the .seconds field wraps here)
SecondsPerDay == 86400
\* requests.get(self.handshake_url, params=params, timeout=5)
Timeout == 5

\* Python's None, for fields holding text (a text is a sequence of characters)
None == <<"None">>
\* Python's None for self.np (listens are 1..NumListens)
NoListen == 0
\* Python's None for Delay._start_time (instants are >= 0)
NoTime == -1
\* an int and a str where a field or an argument may hold None as well
int(n) == <<"int", n>>

str(text) == <<"str", text>>

(***************************************************************************)
(* Listens.  A Listen object is identified by its index; date is its date  *)
(* field (listen 1 is the oldest; listens 2 and 3 share a date).           *)
(***************************************************************************)
Listens == 1..NumListens

date(l) == l \div 2

(***************************************************************************)
(* Texts: str values as sequences of one-character strings.                *)
(***************************************************************************)
LF == "\n"

\* str.split("\n"): the lines of a text; n separators give n + 1 lines
split(text) ==
    LET seps == { i \in 1..Len(text) : text[i] = LF }
        \* the position of the k-th separator; 0 and Len(text) + 1 stand for
        \* the two ends of the text
        sep(k) == IF k = 0 THEN 0
                  ELSE IF k > Cardinality(seps) THEN Len(text) + 1
                  ELSE CHOOSE i \in seps :
                           Cardinality({ j \in seps : j < i }) = k - 1
    IN  [k \in 1..(Cardinality(seps) + 1) |->
            SubSeq(text, sep(k - 1) + 1, sep(k) - 1)]

\* str.startswith(prefix)
startswith(text, prefix) ==
    /\ Len(text) >= Len(prefix)
    /\ SubSeq(text, 1, Len(prefix)) = prefix

OK == <<"O", "K">>
BANNED == <<"B", "A", "N", "N", "E", "D">>
BADAUTH == <<"B", "A", "D", "A", "U", "T", "H">>
BADTIME == <<"B", "A", "D", "T", "I", "M", "E">>
BADSESSION == <<"B", "A", "D", "S", "E", "S", "S", "I", "O", "N">>
FAILED == <<"F", "A", "I", "L", "E", "D">>


(***************************************************************************)
(* The server's answer to one HTTP exchange, as the requests library       *)
(* delivers it: a transport exception, or a status code and a body.        *)
(***************************************************************************)
HandshakeTexts ==
    { OK \o <<LF, "S", LF, "N", LF, "U", LF>>,
      BANNED \o <<LF>>,
      BADAUTH \o <<LF>>,
      BADTIME \o <<LF>>,
      FAILED \o <<" ", "x", LF>> }

PostTexts ==
    { OK \o <<LF>>,
      BADSESSION \o <<LF>>,
      FAILED \o <<" ", "x", LF>> }

Responses(texts) ==
    { [exception |-> TRUE, status_code |-> 0, text |-> <<>>] }
    \cup { [exception |-> FALSE, status_code |-> 500, text |-> OK \o <<LF>>] }
    \cup { [exception |-> FALSE, status_code |-> 200, text |-> t] : t \in texts }

\* the server answers a GET or a POST with any of them
ServerResponses == Responses(HandshakeTexts \cup PostTexts)

\* placeholder recorded when a host call consumed no server answer
NoResponse == [exception |-> FALSE, status_code |-> 0, text |-> <<>>]

\* a server that takes the connection and never answers: neither a status
\* nor a body arrives
Silent == [exception |-> FALSE, status_code |-> 0, text |-> None]

\* requests.get / requests.post against a server that behaves as r: what the
\* call delivers.  With a timeout a silent server ends in the exception
\* requests.exceptions.Timeout; without one (the default of requests, None)
\* the call waits for ever.
requests_request(r, timeout) ==
    IF r = Silent
    THEN IF timeout = None
         THEN [blocked |-> TRUE, exception |-> FALSE, status_code |-> 0,
               text |-> None]
         ELSE [blocked |-> FALSE, exception |-> TRUE, status_code |-> 0,
               text |-> <<>>]
    ELSE [blocked |-> FALSE, exception |-> r.exception,
          status_code |-> r.status_code, text |-> r.text]

\* requests.Response.raise_for_status: HTTPError for 4xx and 5xx
raise_for_status(status_code) == status_code >= 400 /\ status_code < 600

(***************************************************************************)
(* Network (network.py).  A method returns the object after the call, the  *)
(* exception it raised ("None" when it returned) and the requests it sent. *)
(***************************************************************************)
HandshakeError == {"ClientBannedException", "BadAuthException", "BadTimeException"}

\* a request sent: its url, its parameters (data, and s, the session id),
\* the listens the parameters were made from and the timeout argument handed
\* to the requests library (None when none is handed over)
Request(type, url, session, listens, data, timeout) ==
    [type |-> type, url |-> url, s |-> session, listens |-> listens,
     data |-> data, timeout |-> timeout]

\* the names of the scrobble parameters the model keeps: a, the artist
\* name, which stands for the fields that identify the listen, and i, the
\* timestamp
ParamNames == {"a", "i"}

\* Listen.nowplaying_params: names without an index
nowplaying_params(listen) == [key \in {<<"a">>} |-> listen]

\* Listen.scrobble_params: names with the index idx
scrobble_params(listen, idx) ==
    [key \in ParamNames \X {idx} |->
        IF key[1] = "a" THEN listen ELSE date(listen)]

\* _get_scrobble_params with enumerate counting from 1
_get_scrobble_params_from_one(listens) ==
    [key \in ParamNames \X (1..Len(listens)) |->
        scrobble_params(listens[key[2]], key[2])[key]]

\* Network._get_scrobble_params: the scrobble_params of every listen, under
\* the index enumerate gives it, counting from 0
_get_scrobble_params(listens) ==
    [key \in ParamNames \X (0..(Len(listens) - 1)) |->
        scrobble_params(listens[key[2] + 1], key[2])[key]]

Outcome(self, exc, reqs) == [self |-> self, exc |-> exc, reqs |-> reqs]

\* _process_handshake_response storing the credentials only while no session
\* is stored
_process_handshake_response_once(self, text) ==
    LET result == split(text)
    IN  IF Len(result) >= 4 /\ result[1] = OK
        THEN IF self.session = None
             THEN Outcome([self EXCEPT !.session = result[2],
                                       !.nowplaying_url = result[3],
                                       !.scrobble_url = result[4]], "None", <<>>)
             ELSE Outcome(self, "None", <<>>)
        ELSE IF result[1] = BANNED THEN Outcome(self, "ClientBannedException", <<>>)
        ELSE IF result[1] = BADAUTH THEN Outcome(self, "BadAuthException", <<>>)
        ELSE IF result[1] = BADTIME THEN Outcome(self, "BadTimeException", <<>>)
        ELSE Outcome(self, "HardFailureError", <<>>)

\* _process_handshake_response asking only that the first line begins with OK
_process_handshake_response_by_prefix(self, text) ==
    LET result == split(text)
    IN  IF Len(result) >= 4 /\ startswith(result[1], OK)
        THEN Outcome([self EXCEPT !.session = result[2],
                                  !.nowplaying_url = result[3],
                                  !.scrobble_url = result[4]], "None", <<>>)
        ELSE IF result[1] = BANNED THEN Outcome(self, "ClientBannedException", <<>>)
        ELSE IF result[1] = BADAUTH THEN Outcome(self, "BadAuthException", <<>>)
        ELSE IF result[1] = BADTIME THEN Outcome(self, "BadTimeException", <<>>)
        ELSE Outcome(self, "HardFailureError", <<>>)

_process_handshake_response(self, text) ==
    LET result == split(text)
    IN  IF Len(result) >= 4 /\ result[1] = OK
        THEN Outcome([self EXCEPT !.session = result[2],
                                  !.nowplaying_url = result[3],
                                  !.scrobble_url = result[4]], "None", <<>>)
        ELSE IF result[1] = BANNED THEN Outcome(self, "ClientBannedException", <<>>)
        ELSE IF result[1] = BADAUTH THEN Outcome(self, "BadAuthException", <<>>)
        ELSE IF result[1] = BADTIME THEN Outcome(self, "BadTimeException", <<>>)
        ELSE Outcome(self, "HardFailureError", <<>>)

\* _process_post_response asking for the first line to be OK or BADSESSION
_process_post_response_by_line(self, text) ==
    IF split(text)[1] = OK THEN Outcome(self, "None", <<>>)
    ELSE IF split(text)[1] = BADSESSION
    THEN Outcome(self, "BadSessionError", <<>>)
    ELSE Outcome(self, "HardFailureError", <<>>)

_process_post_response(self, text) ==
    IF startswith(text, OK) THEN Outcome(self, "None", <<>>)
    ELSE IF startswith(text, BADSESSION) THEN Outcome(self, "BadSessionError", <<>>)
    ELSE Outcome(self, "HardFailureError", <<>>)

\* server is the behaviour of the remote server at this exchange; the exc
\* "blocked" stands for a call that never returns
handshake(self, server) ==
    LET req == Request("handshake", <<"handshake_url">>, None, <<>>, <<>>,
                       int(Timeout))
        r == requests_request(server, req.timeout)
    IN  IF r.blocked THEN Outcome(self, "blocked", <<req>>)
        ELSE IF r.exception THEN Outcome(self, "RequestsError", <<req>>)
        ELSE IF raise_for_status(r.status_code)
        THEN Outcome(self, "HardFailureError", <<req>>)
        ELSE LET p == _process_handshake_response(self, r.text)
             IN  Outcome(p.self, p.exc, <<req>>)

\* _make_post_request looking at the listens before it looks at the session
_make_post_request_listens_first(self, request_type, listens, server) ==
    IF Len(listens) = 0 THEN Outcome(self, "SubmissionWithoutListensError", <<>>)
    ELSE IF self.session = None THEN Outcome(self, "BadSessionError", <<>>)
    ELSE LET url == IF request_type = "scrobble"
                    THEN self.scrobble_url ELSE self.nowplaying_url
             params == IF request_type = "scrobble"
                       THEN _get_scrobble_params(listens)
                       ELSE nowplaying_params(listens[1])
             req == Request(request_type, url, self.session,
                            IF request_type = "scrobble" THEN listens
                            ELSE <<listens[1]>>, params, None)
             r == requests_request(server, req.timeout)
         IN  IF r.blocked THEN Outcome(self, "blocked", <<req>>)
             ELSE IF r.exception THEN Outcome(self, "RequestsError", <<req>>)
             ELSE IF raise_for_status(r.status_code)
             THEN Outcome(self, "HardFailureError", <<req>>)
             ELSE LET p == _process_post_response(self, r.text)
                  IN  Outcome(p.self, p.exc, <<req>>)

_make_post_request(self, request_type, listens, server) ==
    IF self.session = None THEN Outcome(self, "BadSessionError", <<>>)
    ELSE IF Len(listens) = 0 THEN Outcome(self, "SubmissionWithoutListensError", <<>>)
    ELSE LET url == IF request_type = "scrobble"
                    THEN self.scrobble_url ELSE self.nowplaying_url
             params == IF request_type = "scrobble"
                       THEN _get_scrobble_params(listens)
                       ELSE nowplaying_params(listens[1])
             req == Request(request_type, url, self.session,
                            IF request_type = "scrobble" THEN listens
                            ELSE <<listens[1]>>, params, None)
             r == requests_request(server, req.timeout)
         IN  IF r.blocked THEN Outcome(self, "blocked", <<req>>)
             ELSE IF r.exception THEN Outcome(self, "RequestsError", <<req>>)
             ELSE IF raise_for_status(r.status_code)
             THEN Outcome(self, "HardFailureError", <<req>>)
             ELSE LET p == _process_post_response(self, r.text)
                  IN  Outcome(p.self, p.exc, <<req>>)

nowplaying(self, listen, r) == _make_post_request(self, "nowplaying", <<listen>>, r)

scrobble(self, listens, r) == _make_post_request(self, "scrobble", listens, r)

(***************************************************************************)
(* Delay (delay.py).  Instants and durations are counted in clock units.   *)
(***************************************************************************)
\* datetime.timedelta.seconds: the whole seconds left after the whole days
timedelta_seconds(td) == (td % (SecondsPerDay * UnitsPerSecond)) \div UnitsPerSecond

Delay_update(delay, t) == [delay EXCEPT !.start_time = t]

Delay_reset(delay) == [delay EXCEPT !.seconds = 0, !.start_time = NoTime]

\* Delay.remaining measuring the delay from the moment of the call
Delay_remaining_restarting(delay, t) ==
    IF delay.seconds = 0 THEN 0
    ELSE IF delay.start_time = NoTime THEN 0
    ELSE delay.seconds * UnitsPerSecond

Delay_remaining(delay, t) ==
    IF delay.seconds = 0 THEN 0
    ELSE IF delay.start_time = NoTime THEN 0
    ELSE LET delay_end == delay.start_time + delay.seconds * UnitsPerSecond
         IN  IF delay_end <= t THEN 0 ELSE delay_end - t

Delay_is_active(delay, t) == timedelta_seconds(Delay_remaining(delay, t)) > 0

\* Delay.increase growing the delay by the base in place of the multiplier
Delay_increase_stepping(delay) ==
    LET grown == delay.seconds + delay.options.base
    IN  [delay EXCEPT !.seconds = IF grown > delay.options.max
                                  THEN delay.options.max ELSE grown]

\* Delay.increase without the cap at the maximum
Delay_increase_uncapped(delay) ==
    LET grown == IF delay.seconds * delay.options.multiplier # 0
                 THEN delay.seconds * delay.options.multiplier
                 ELSE delay.options.base
    IN  [delay EXCEPT !.seconds = grown]

\* Delay.increase starting from the base without the cap at the maximum
Delay_increase_from_base(delay) ==
    IF delay.seconds * delay.options.multiplier # 0
    THEN LET grown == delay.seconds * delay.options.multiplier
         IN  [delay EXCEPT !.seconds = IF grown > delay.options.max
                                       THEN delay.options.max ELSE grown]
    ELSE [delay EXCEPT !.seconds = delay.options.base]

\* (self._seconds * multiplier) or base_delay, then the cap at max_delay
Delay_increase(delay) ==
    LET grown == IF delay.seconds * delay.options.multiplier # 0
                 THEN delay.seconds * delay.options.multiplier
                 ELSE delay.options.base
    IN  [delay EXCEPT !.seconds = IF grown > delay.options.max
                                  THEN delay.options.max ELSE grown]

\* Delay.start at time t: reset, update, increase
Delay_start(delay, t) == Delay_increase(Delay_update(Delay_reset(delay), t))

\* Delay.__init__ with all three options given
Delay_init(options) ==
    [seconds |-> 0, start_time |-> NoTime, options |-> options]

(***************************************************************************)
(* Listen (listen.py).  A field holds None, an int or a str; date is an     *)
(* instant in clock units.                                                 *)
(***************************************************************************)
\* a datetime given as reference
datetime(t) == <<"datetime", t>>

\* Python's x or y: y when x is None, 0 or the empty string
or(x, y) == IF x = None \/ x = int(0) \/ x = str("") THEN y ELSE x

\* int(self.date.timestamp())
Listen_timestamp(self) == int(self.date \div UnitsPerSecond)

\* round(length / 2): Python rounds a half to the even neighbour
round_half(length) ==
    LET q == length \div 2
    IN  IF length % 2 = 0 THEN q ELSE IF q % 2 = 0 THEN q ELSE q + 1

\* the value returned and the exception raised by a method of Listen
Returned(ret, exc) == [ret |-> ret, exc |-> exc]

Listen_required_play_time(self) ==
    IF self.length = None THEN Returned(None, "TypeError")
    ELSE IF self.length[2] > 480 THEN Returned(240, "None")
    ELSE Returned(round_half(self.length[2]), "None")

Listen_nowplaying_params(self) ==
    [key \in {<<"a">>, <<"t">>, <<"b">>, <<"l">>, <<"n">>, <<"m">>} |->
        CASE key[1] = "a" -> self.artist_name
          [] key[1] = "t" -> self.track_title
          [] key[1] = "b" -> or(self.album_title, str(""))
          [] key[1] = "l" -> or(self.length, str(""))
          [] key[1] = "n" -> or(self.tracknumber, str(""))
          [] key[1] = "m" -> or(self.mb_trackid, str(""))]

Listen_scrobble_params(self, idx) ==
    [key \in {"a", "t", "i", "o", "r", "l", "b", "n", "m"} \X {idx} |->
        CASE key[1] = "a" -> self.artist_name
          [] key[1] = "t" -> self.track_title
          [] key[1] = "i" -> Listen_timestamp(self)
          [] key[1] = "o" -> self.source
          [] key[1] = "r" -> or(self.rating, str(""))
          [] key[1] = "l" -> or(self.length, int(0))
          [] key[1] = "b" -> or(self.album_title, str(""))
          [] key[1] = "n" -> or(self.tracknumber, str(""))
          [] key[1] = "m" -> or(self.mb_trackid, str(""))]

Listen_eligible_for_scrobbling(self, reference) ==
    IF self.length = None THEN Returned(None, "TypeError")
    ELSE IF self.length[2] < 30 THEN Returned(FALSE, "None")
    ELSE IF reference = None THEN Returned(TRUE, "None")
    ELSE LET time_between == reference[2] - self.date
         IN  Returned(timedelta_seconds(time_between)
                          >= Listen_required_play_time(self).ret, "None")

(***************************************************************************)
(* LegacyScrobbler (clients/legacy.py): the engine object and its methods. *)
(***************************************************************************)
Min(a, b) == IF a < b THEN a ELSE b

\* islice taking the element at position stop as well
islice_inclusive(seq, start, stop) ==
    SubSeq(seq, start + 1, Min(stop + 1, Len(seq)))

\* itertools.islice(seq, start, stop): the elements at positions start..stop-1
islice(seq, start, stop) == SubSeq(seq, start + 1, Min(stop, Len(seq)))

\* itertools.islice(seq, start, None): the elements from position start on
islice_from(seq, start) == SubSeq(seq, start + 1, Len(seq))

RECURSIVE by_date(_, _)
\* the elements of seq whose date is in dates, by ascending date, the
\* elements of one date in the order they have in seq
by_date(seq, dates) ==
    IF dates = {} THEN <<>>
    ELSE LET d == CHOOSE x \in dates : \A y \in dates : x <= y
         IN  SelectSeq(seq, LAMBDA l : date(l) = d) \o by_date(seq, dates \ {d})

\* sorted(seq, key=lambda listen: listen.date), which is stable
sorted(seq) == by_date(seq, { date(seq[i]) : i \in 1..Len(seq) })

\* ScrobbleClientInterface.__init__, Network.__init__, LegacyScrobbler.__init__
new ==
    [ state |-> "no_session",
      session |-> None,
      nowplaying_url |-> None,
      scrobble_url |-> None,
      hard_fails |-> 0,
      delay |-> Delay_init([base |-> DelayBase, max |-> DelayMax,
                            multiplier |-> DelayMultiplier]),
      queue |-> <<>>,
      np |-> NoListen ]

\* _sort_queue with the result of sorted() thrown away
_sort_queue_discarding(self) == self

_sort_queue(self) == [self EXCEPT !.queue = sorted(self.queue)]

\* send_nowplaying keeping a listen that is pending already
send_nowplaying_keeping_pending(self, listen) ==
    IF self.np = NoListen THEN [self EXCEPT !.np = listen] ELSE self

send_nowplaying(self, listen) == [self EXCEPT !.np = listen]

\* add_listens without the call of _sort_queue
add_listens_unsorted(self, listens) ==
    [self EXCEPT !.queue = self.queue \o listens]

\* add_listens leaving out the listens that are queued already
add_listens_deduplicating(self, listens) ==
    _sort_queue([self EXCEPT !.queue = self.queue \o
        SelectSeq(listens,
                  LAMBDA l : \A i \in 1..Len(self.queue) : self.queue[i] # l)])

add_listens(self, listens) ==
    _sort_queue([self EXCEPT !.queue = self.queue \o listens])

\* _in_case_of_failure falling back after more than MaxHardFails failures
_in_case_of_failure_late(self) ==
    LET failed == [self EXCEPT !.hard_fails = self.hard_fails + 1,
                               !.delay = Delay_increase(self.delay)]
    IN  IF ~(failed.state = "no_session") /\ failed.hard_fails > MaxHardFails
        THEN [failed EXCEPT !.state = "no_session"]
        ELSE failed

\* _in_case_of_failure dropping the session when it falls back
_in_case_of_failure_dropping(self) ==
    LET failed == [self EXCEPT !.hard_fails = self.hard_fails + 1,
                               !.delay = Delay_increase(self.delay)]
    IN  IF ~(failed.state = "no_session") /\ failed.hard_fails >= MaxHardFails
        THEN [failed EXCEPT !.state = "no_session", !.session = None]
        ELSE failed

_in_case_of_failure(self) ==
    LET failed == [self EXCEPT !.hard_fails = self.hard_fails + 1,
                               !.delay = Delay_increase(self.delay)]
    IN  IF ~(failed.state = "no_session") /\ failed.hard_fails >= MaxHardFails
        THEN [failed EXCEPT !.state = "no_session"]
        ELSE failed

\* on_handshake_attempt_cb keeping a start time that is set already
on_handshake_attempt_cb_keeping(self, t) ==
    IF self.delay.start_time = NoTime
    THEN [self EXCEPT !.delay = Delay_update(self.delay, t)]
    ELSE self

on_handshake_attempt_cb(self, t) ==
    [self EXCEPT !.delay = Delay_update(self.delay, t)]

\* on_successful_handshake_cb without the call of delay.reset()
on_successful_handshake_cb_keeping_delay(self) ==
    [self EXCEPT !.hard_fails = 0, !.state = "idle"]

on_successful_handshake_cb(self) ==
    [self EXCEPT !.hard_fails = 0,
                 !.delay = Delay_reset(self.delay),
                 !.state = "idle"]

on_successful_nowplaying_cb(self) == [self EXCEPT !.np = NoListen]

\* on_successful_scrobble_cb cutting one listen less than a batch
on_successful_scrobble_cb_short(self) ==
    [self EXCEPT !.queue = islice_from(self.queue, BatchSize - 1)]

on_successful_scrobble_cb(self) ==
    [self EXCEPT !.queue = islice_from(self.queue, BatchSize)]

\* a callback handed to _execute_request, called with no arguments at time t
call_cb(cb, self, t) ==
    CASE cb = "on_handshake_attempt_cb" -> on_handshake_attempt_cb(self, t)
      [] cb = "on_successful_handshake_cb" -> on_successful_handshake_cb(self)
      [] cb = "on_successful_nowplaying_cb" -> on_successful_nowplaying_cb(self)
      [] cb = "on_successful_scrobble_cb" -> on_successful_scrobble_cb(self)
      [] OTHER -> self

\* method(arg) if arg else method(): arg is <<>> for None and for an empty
\* deque, <<listen>> for a Listen, the slice for a deque of listens
call_method(method, self, arg, r) ==
    CASE method = "handshake" /\ arg = <<>> -> handshake(self, r)
      [] method = "nowplaying" /\ arg # <<>> -> nowplaying(self, arg[1], r)
      [] method = "scrobble" /\ arg # <<>> -> scrobble(self, arg, r)
      [] OTHER -> Outcome(self, "TypeError", <<>>)

\* the result of a host call: the object after it, the exception that
\* escaped to the host, the exception the request method raised and the
\* requests sent
Result(self, raised, exc, reqs) ==
    [self |-> self, raised |-> raised, exc |-> exc, reqs |-> reqs]

\* except_clauses with BadSessionError counted as a failure
except_clauses_counting(m) ==
    CASE m.exc = "None" -> [self |-> m.self, raised |-> "None"]
      [] m.exc = "HardFailureError" ->
           [self |-> _in_case_of_failure(m.self), raised |-> "None"]
      [] m.exc = "RequestsError" ->
           [self |-> _in_case_of_failure(m.self), raised |-> "None"]
      [] m.exc = "BadSessionError" ->
           [self |-> [_in_case_of_failure(m.self)
                          EXCEPT !.state = "no_session", !.session = None],
            raised |-> "None"]
      [] OTHER -> [self |-> m.self, raised |-> m.exc]

\* except_clauses with the BadSessionError clause clearing the URLs as well
except_clauses_clearing(m) ==
    CASE m.exc = "None" -> [self |-> m.self, raised |-> "None"]
      [] m.exc = "HardFailureError" ->
           [self |-> _in_case_of_failure(m.self), raised |-> "None"]
      [] m.exc = "RequestsError" ->
           [self |-> _in_case_of_failure(m.self), raised |-> "None"]
      [] m.exc = "BadSessionError" ->
           [self |-> [m.self EXCEPT !.state = "no_session", !.session = None,
                                    !.nowplaying_url = None,
                                    !.scrobble_url = None],
            raised |-> "None"]
      [] OTHER -> [self |-> m.self, raised |-> m.exc]

\* except_clauses with the HandshakeError clause making the engine unusable
except_clauses_poisoning(m) ==
    CASE m.exc = "None" -> [self |-> m.self, raised |-> "None"]
      [] m.exc = "HardFailureError" ->
           [self |-> _in_case_of_failure(m.self), raised |-> "None"]
      [] m.exc = "RequestsError" ->
           [self |-> _in_case_of_failure(m.self), raised |-> "None"]
      [] m.exc = "BadSessionError" ->
           [self |-> [m.self EXCEPT !.state = "no_session", !.session = None],
            raised |-> "None"]
      [] m.exc \in HandshakeError ->
           [self |-> [m.self EXCEPT !.state = "poisoned"], raised |-> m.exc]
      [] OTHER -> [self |-> m.self, raised |-> m.exc]

\* except_clauses with the BadSessionError clause leaving the state as it is
except_clauses_staying_idle(m) ==
    CASE m.exc = "None" -> [self |-> m.self, raised |-> "None"]
      [] m.exc = "HardFailureError" ->
           [self |-> _in_case_of_failure(m.self), raised |-> "None"]
      [] m.exc = "RequestsError" ->
           [self |-> _in_case_of_failure(m.self), raised |-> "None"]
      [] m.exc = "BadSessionError" ->
           [self |-> [m.self EXCEPT !.session = None], raised |-> "None"]
      [] OTHER -> [self |-> m.self, raised |-> m.exc]

\* the except clauses of _execute_request, for the outcome m of the request
\* method: the object after the clause that matches m.exc, and the exception
\* that clause re-raises (an exception no clause matches is raised as it is)
except_clauses(m) ==
    CASE m.exc = "None" -> [self |-> m.self, raised |-> "None"]
      [] m.exc = "HardFailureError" ->
           [self |-> _in_case_of_failure(m.self), raised |-> "None"]
      [] m.exc = "RequestsError" ->
           [self |-> _in_case_of_failure(m.self), raised |-> "None"]
      [] m.exc = "BadSessionError" ->
           [self |-> [m.self EXCEPT !.state = "no_session", !.session = None],
            raised |-> "None"]
      [] m.exc \in HandshakeError -> [self |-> m.self, raised |-> m.exc]
      [] m.exc = "SubmissionWithoutListensError" ->
           [self |-> m.self, raised |-> m.exc]
      [] OTHER -> [self |-> m.self, raised |-> m.exc]

\* _execute_request handling a HandshakeError as a failure
_execute_request_swallowing(self, method, else_cb, finally_cb, arg, r, t) ==
    LET m == call_method(method, self, arg, r)
        handled == IF m.exc \in HandshakeError
                   THEN [self |-> _in_case_of_failure(m.self), raised |-> "None"]
                   ELSE except_clauses(m)
        after_else == IF m.exc = "None" THEN call_cb(else_cb, handled.self, t)
                      ELSE handled.self
        after_finally == IF m.exc = "blocked" THEN m.self
                         ELSE call_cb(finally_cb, after_else, t)
    IN  Result(after_finally, handled.raised, m.exc, m.reqs)

\* try / except / else / finally around the request method; t is the clock
\* reading once the exchange is over.  While the request method is blocked
\* no clause runs.
_execute_request(self, method, else_cb, finally_cb, arg, r, t) ==
    LET m == call_method(method, self, arg, r)
        handled == except_clauses(m)
        after_else == IF m.exc = "None" THEN call_cb(else_cb, handled.self, t)
                      ELSE handled.self
        after_finally == IF m.exc = "blocked" THEN m.self
                         ELSE call_cb(finally_cb, after_else, t)
    IN  Result(after_finally, handled.raised, m.exc, m.reqs)

\* tick with the nowplaying branch under if in place of elif
tick_falling_through(self, t0, t1, r) ==
    LET first == IF self.state = "no_session" /\ ~Delay_is_active(self.delay, t0)
                 THEN _execute_request(self, "handshake",
                                       "on_successful_handshake_cb",
                                       "on_handshake_attempt_cb", <<>>, r, t1)
                 ELSE Result(self, "None", "None", <<>>)
        second == IF /\ first.raised = "None"
                     /\ first.self.state = "idle"
                     /\ first.self.np # NoListen
                  THEN _execute_request(first.self, "nowplaying",
                                        "on_successful_nowplaying_cb",
                                        "None", <<first.self.np>>, r, t1)
                  ELSE Result(first.self, first.raised, first.exc, <<>>)
    IN  Result(second.self, second.raised, second.exc,
               first.reqs \o second.reqs)

\* tick with the scrobble branch ahead of the nowplaying branch
tick_scrobbling_first(self, t0, t1, r) ==
    IF self.state = "no_session" /\ ~Delay_is_active(self.delay, t0)
    THEN _execute_request(self, "handshake", "on_successful_handshake_cb",
                          "on_handshake_attempt_cb", <<>>, r, t1)
    ELSE IF self.state = "idle" /\ Len(self.queue) > 0
    THEN LET scrobble_slice == islice(self.queue, 0, BatchSize)
         IN  _execute_request(self, "scrobble", "on_successful_scrobble_cb",
                              "None", scrobble_slice, r, t1)
    ELSE IF self.state = "idle" /\ self.np # NoListen
    THEN _execute_request(self, "nowplaying", "on_successful_nowplaying_cb",
                          "None", <<self.np>>, r, t1)
    ELSE Result(self, "None", "None", <<>>)

\* tick asking the delay before a submission as well
tick_waiting_in_idle(self, t0, t1, r) ==
    IF Delay_is_active(self.delay, t0) THEN Result(self, "None", "None", <<>>)
    ELSE IF self.state = "no_session"
    THEN _execute_request(self, "handshake", "on_successful_handshake_cb",
                          "on_handshake_attempt_cb", <<>>, r, t1)
    ELSE IF self.state = "idle" /\ self.np # NoListen
    THEN _execute_request(self, "nowplaying", "on_successful_nowplaying_cb",
                          "None", <<self.np>>, r, t1)
    ELSE IF self.state = "idle" /\ Len(self.queue) > 0
    THEN LET scrobble_slice == islice(self.queue, 0, BatchSize)
         IN  _execute_request(self, "scrobble", "on_successful_scrobble_cb",
                              "None", scrobble_slice, r, t1)
    ELSE Result(self, "None", "None", <<>>)

\* tick attempting the handshake without asking the delay
tick_ignoring_delay(self, t0, t1, r) ==
    IF self.state = "no_session"
    THEN _execute_request(self, "handshake", "on_successful_handshake_cb",
                          "on_handshake_attempt_cb", <<>>, r, t1)
    ELSE IF self.state = "idle" /\ self.np # NoListen
    THEN _execute_request(self, "nowplaying", "on_successful_nowplaying_cb",
                          "None", <<self.np>>, r, t1)
    ELSE IF self.state = "idle" /\ Len(self.queue) > 0
    THEN LET scrobble_slice == islice(self.queue, 0, BatchSize)
         IN  _execute_request(self, "scrobble", "on_successful_scrobble_cb",
                              "None", scrobble_slice, r, t1)
    ELSE Result(self, "None", "None", <<>>)

\* t0 is the clock reading when tick() starts, t1 the reading once its HTTP
\* exchange is over; r is the server's answer to the exchange
tick(self, t0, t1, r) ==
    IF self.state = "no_session" /\ ~Delay_is_active(self.delay, t0)
    THEN _execute_request(self, "handshake", "on_successful_handshake_cb",
                          "on_handshake_attempt_cb", <<>>, r, t1)
    ELSE IF self.state = "idle" /\ self.np # NoListen
    THEN _execute_request(self, "nowplaying", "on_successful_nowplaying_cb",
                          "None", <<self.np>>, r, t1)
    ELSE IF self.state = "idle" /\ Len(self.queue) > 0
    THEN LET scrobble_slice == islice(self.queue, 0, BatchSize)
         IN  _execute_request(self, "scrobble", "on_successful_scrobble_cb",
                              "None", scrobble_slice, r, t1)
    ELSE Result(self, "None", "None", <<>>)

(***************************************************************************)
(* ScrobblerClient (client.py): the engine the package exports.  delay is  *)
(* an int of seconds, last_handshake an instant or None (NoTime).          *)
(***************************************************************************)
\* ScrobblerClient.__init__
ScrobblerClient_new ==
    [ state |-> "no_session",
      session |-> None,
      nowplaying_url |-> None,
      scrobble_url |-> None,
      delay |-> 0,
      hard_fails |-> 0,
      last_handshake |-> NoTime,
      queue |-> <<>>,
      np |-> NoListen ]

ScrobblerClient_set_nowplaying(self, listen) == [self EXCEPT !.np = listen]

ScrobblerClient__sort_queue(self) == [self EXCEPT !.queue = sorted(self.queue)]

ScrobblerClient_enqueue_listens(self, listens) ==
    ScrobblerClient__sort_queue([self EXCEPT !.queue = self.queue \o listens])

\* the timedelta until the next handshake is allowed, in clock units, at
\* clock reading t
ScrobblerClient__time_to_next_handshake(self, t) ==
    IF self.delay = 0 THEN 0
    ELSE IF self.last_handshake = NoTime THEN 0
    ELSE LET next_handshake == self.last_handshake + self.delay * UnitsPerSecond
         IN  IF next_handshake <= t THEN 0 ELSE next_handshake - t

ScrobblerClient__allowed_to_handshake(self, t) ==
    IF timedelta_seconds(ScrobblerClient__time_to_next_handshake(self, t)) > 0
    THEN FALSE
    ELSE TRUE

ScrobblerClient__increase_delay(self) ==
    LET doubled == IF self.delay * 2 # 0 THEN self.delay * 2 ELSE 60
    IN  [self EXCEPT !.delay = IF doubled > 120 * 60 THEN 120 * 60 ELSE doubled]

ScrobblerClient__in_case_of_failure(self) ==
    LET failed == ScrobblerClient__increase_delay(
                      [self EXCEPT !.hard_fails = self.hard_fails + 1])
    IN  IF ~(failed.state = "no_session") /\ failed.hard_fails >= 3
        THEN [failed EXCEPT !.state = "no_session"]
        ELSE failed

\* on_successful_handshake leaving the delay as it is
ScrobblerClient_on_successful_handshake_keeping_delay(self) ==
    [self EXCEPT !.hard_fails = 0, !.state = "idle"]

\* the callbacks tick() defines
ScrobblerClient_on_successful_handshake(self) ==
    [self EXCEPT !.hard_fails = 0, !.delay = 0, !.state = "idle"]

ScrobblerClient_after_handshake_attempt(self, t) ==
    [self EXCEPT !.last_handshake = t]

ScrobblerClient_on_successful_nowplaying(self) == [self EXCEPT !.np = NoListen]

ScrobblerClient_on_successful_scrobble(self) ==
    [self EXCEPT !.queue = islice_from(self.queue, 50)]

\* a callback handed to _execute_request, called with no arguments at time t
ScrobblerClient_call_cb(cb, self, t) ==
    CASE cb = "on_successful_handshake" ->
             ScrobblerClient_on_successful_handshake(self)
      [] cb = "after_handshake_attempt" ->
             ScrobblerClient_after_handshake_attempt(self, t)
      [] cb = "on_successful_nowplaying" ->
             ScrobblerClient_on_successful_nowplaying(self)
      [] cb = "on_successful_scrobble" ->
             ScrobblerClient_on_successful_scrobble(self)
      [] OTHER -> self

\* the except clauses of ScrobblerClient._execute_request
ScrobblerClient_except_clauses(m) ==
    CASE m.exc = "None" -> [self |-> m.self, raised |-> "None"]
      [] m.exc = "HardFailureError" ->
           [self |-> ScrobblerClient__in_case_of_failure(m.self),
            raised |-> "None"]
      [] m.exc = "RequestsError" ->
           [self |-> ScrobblerClient__in_case_of_failure(m.self),
            raised |-> "None"]
      [] m.exc = "BadSessionError" ->
           [self |-> [m.self EXCEPT !.state = "no_session", !.session = None],
            raised |-> "None"]
      [] m.exc \in HandshakeError -> [self |-> m.self, raised |-> m.exc]
      [] m.exc = "SubmissionWithoutListensError" ->
           [self |-> m.self, raised |-> m.exc]
      [] OTHER -> [self |-> m.self, raised |-> m.exc]

ScrobblerClient__execute_request(self, method, else_cb, finally_cb, arg, r, t) ==
    LET m == call_method(method, self, arg, r)
        handled == ScrobblerClient_except_clauses(m)
        after_else == IF m.exc = "None"
                      THEN ScrobblerClient_call_cb(else_cb, handled.self, t)
                      ELSE handled.self
        after_finally == IF m.exc = "blocked" THEN m.self
                         ELSE ScrobblerClient_call_cb(finally_cb, after_else, t)
    IN  Result(after_finally, handled.raised, m.exc, m.reqs)

\* t0 is the clock reading when tick() starts, t1 the reading once its HTTP
\* exchange is over; r is the server's answer to the exchange
ScrobblerClient_tick(self, t0, t1, r) ==
    IF self.state = "no_session" /\ ScrobblerClient__allowed_to_handshake(self, t0)
    THEN ScrobblerClient__execute_request(self, "handshake",
                                          "on_successful_handshake",
                                          "after_handshake_attempt", <<>>, r, t1)
    ELSE IF self.state = "idle" /\ self.np # NoListen
    THEN ScrobblerClient__execute_request(self, "nowplaying",
                                          "on_successful_nowplaying",
                                          "None", <<self.np>>, r, t1)
    ELSE IF self.state = "idle" /\ Len(self.queue) > 0
    THEN LET scrobble_slice == islice(self.queue, 0, 50)
         IN  ScrobblerClient__execute_request(self, "scrobble",
                                              "on_successful_scrobble",
                                              "None", scrobble_slice, r, t1)
    ELSE Result(self, "None", "None", <<>>)

(***************************************************************************)
(* The state machine.  client is the LegacyScrobbler object, now the wall  *)
(* clock.  obs records the last host call: the object before it, its       *)
(* argument, the server answer it consumed, the requests it sent, the      *)
(* exception its request method raised and the one that reached the host.  *)
(* hist is history: the listens some scrobble request has carried and the  *)
(* pairs <<x, y>> of listens such that the first request carrying x came   *)
(* before the first request carrying y (both kept by the specification of  *)
(* a log import only), the hard failures since the last successful request *)
(* (counted up to MaxHardFails) and since the last successful handshake,   *)
(* and the number of handshake attempts.                                   *)
(***************************************************************************)
VARIABLES client, now, obs, hist

vars == <<client, now, obs, hist>>

Range(seq) == { seq[i] : i \in 1..Len(seq) }

Observation(op, pre, arg, resp, res) ==
    [ op |-> op, pre |-> pre, arg |-> arg, resp |-> resp,
      reqs |-> res.reqs, exc |-> res.exc, raised |-> res.raised ]

Init ==
    /\ client = new
    /\ now = 0
    /\ obs = Observation("new", new, <<>>, NoResponse,
                         Result(new, "None", "None", <<>>))
    /\ hist = [sent |-> {}, before |-> {}, consecutive |-> 0,
               since_handshake |-> 0, handshakes |-> 0]

\* the iterables of single listens the host hands to add_listens, in any order
ShortInputs == UNION { [1..n -> Listens] : n \in 0..MaxQueue }

\* a bulk import: BulkLen plays of one listen
BulkInputs == { [i \in 1..BulkLen |-> l] : l \in Listens }

Added(listens) ==
    /\ client' = add_listens(client, listens)
    /\ obs' = Observation("add_listens", client, listens, NoResponse,
                          Result(client', "None", "None", <<>>))
    /\ UNCHANGED <<now, hist>>

AddListens ==
    \E listens \in ShortInputs :
        /\ Len(client.queue) + Len(listens) <= MaxQueue
        /\ Added(listens)

AddBulk ==
    \E listens \in BulkInputs :
        /\ Len(client.queue) < MaxQueue
        /\ Added(listens)

SendNowplaying ==
    \E listen \in Listens :
        /\ client' = send_nowplaying(client, listen)
        /\ obs' = Observation("send_nowplaying", client, <<listen>>, NoResponse,
                              Result(client', "None", "None", <<>>))
        /\ UNCHANGED <<now, hist>>

IsHardFailure(exc) == exc \in {"HardFailureError", "RequestsError"}

Types(reqs) == { reqs[i].type : i \in 1..Len(reqs) }

\* the listens carried by the scrobble requests among reqs
Carried(reqs) ==
    UNION { Range(reqs[i].listens) :
              i \in { j \in 1..Len(reqs) : reqs[j].type = "scrobble" } }

History(h, res, keep_sent) ==
    [ sent |-> IF keep_sent THEN h.sent \cup Carried(res.reqs) ELSE h.sent,
      before |-> IF keep_sent
                 THEN h.before \cup (h.sent \X (Carried(res.reqs) \ h.sent))
                 ELSE h.before,
      consecutive |->
          IF res.reqs # <<>> /\ res.exc = "None" THEN 0
          ELSE IF IsHardFailure(res.exc)
          THEN Min(h.consecutive + 1, MaxHardFails)
          ELSE h.consecutive,
      since_handshake |->
          IF "handshake" \in Types(res.reqs) /\ res.exc = "None" THEN 0
          ELSE IF IsHardFailure(res.exc) THEN h.since_handshake + 1
          ELSE h.since_handshake,
      handshakes |->
          IF "handshake" \in Types(res.reqs) THEN h.handshakes + 1
          ELSE h.handshakes ]

\* One call of tick().  The clock moves by the length of a handshake
\* exchange, after which Delay.update reads it; a submission reads no clock,
\* and the time it takes is part of the next Advance.
Ticked(keep_sent) ==
    \E r \in ServerResponses :
        \E res \in { tick(client, now, now + ExchangeDuration, r) } :
        LET t1 == now + ExchangeDuration
            resp == IF res.reqs = <<>> THEN NoResponse ELSE r
        IN  /\ History(hist, res, keep_sent).handshakes <= MaxHandshakes
            /\ client' = res.self
            /\ now' = IF "handshake" \in Types(res.reqs) THEN t1 ELSE now
            /\ obs' = Observation("tick", client, <<>>, resp, res)
            /\ hist' = History(hist, res, keep_sent)

Tick == Ticked(FALSE)

TickImport == Ticked(TRUE)

\* the end of the armed delay
Delay_end(delay) == delay.start_time + delay.seconds * UnitsPerSecond

\* Time passes until the armed delay is over.
Advance ==
    /\ client.delay.seconds > 0
    /\ client.delay.start_time # NoTime
    /\ Delay_end(client.delay) > now
    /\ now' = Delay_end(client.delay)
    /\ UNCHANGED <<client, obs, hist>>

Next == AddListens \/ SendNowplaying \/ Tick \/ Advance

Spec == Init /\ [][Next]_vars

\* A host that imports a log: bulk imports, no nowplaying.
NextImport == AddListens \/ AddBulk \/ TickImport \/ Advance

SpecImport == Init /\ [][NextImport]_vars

\* One call of tick() by a host that keeps retrying: up to MaxAttempts
\* handshakes, answered from responses.
Retried(responses) ==
    \E r \in responses :
        \E res \in { tick(client, now, now + ExchangeDuration, r) } :
        LET t1 == now + ExchangeDuration
            resp == IF res.reqs = <<>> THEN NoResponse ELSE r
        IN  /\ History(hist, res, FALSE).handshakes <= MaxAttempts
            /\ client' = res.self
            /\ now' = IF "handshake" \in Types(res.reqs) THEN t1 ELSE now
            /\ obs' = Observation("tick", client, <<>>, resp, res)
            /\ hist' = History(hist, res, FALSE)

\* the answers of a server that is down or up: a transport error, an error
\* status, success of a handshake, success of a submission
OutageTexts ==
    { OK \o <<LF, "S", LF, "N", LF, "U", LF>>,
      OK \o <<LF>> }

OutageResponses == Responses(OutageTexts)

TickRetry == Retried(OutageResponses)

\* the answers that open no session: transport errors, error statuses,
\* FAILED, BANNED, BADAUTH, BADTIME
RefusingResponses == { r \in ServerResponses : handshake(new, r).exc # "None" }

TickRefused == Retried(RefusingResponses)

\* Time passes until one second, or one clock unit, before the end of the
\* armed delay.
AdvanceWithin ==
    \E d \in {1, UnitsPerSecond} :
        /\ client.delay.seconds > 0
        /\ client.delay.start_time # NoTime
        /\ Delay_end(client.delay) - d > now
        /\ now' = Delay_end(client.delay) - d
        /\ UNCHANGED <<client, obs, hist>>

\* A server that opens no session, and a host that looks at the clock inside
\* the last second of the backoff.
NextBackoff == TickRefused \/ AdvanceWithin \/ Advance

SpecBackoff == Init /\ [][NextBackoff]_vars

\* A server that fails and recovers, and a host that waits for the end of each
\* backoff.
NextOutage == SendNowplaying \/ TickRetry \/ Advance

SpecOutage == Init /\ [][NextOutage]_vars

\* A host that queues a log of n listens and then only calls tick(), and a
\* server that answers every request with success.  Here hist holds the
\* number of listens loaded, the number of calls of tick() and the type and
\* the number of listens of every request sent.
DrainLoads(n) ==
    { [i \in 1..n |-> l] : l \in Listens }
      \cup { [i \in 1..n |-> IF i % 2 = 1 THEN NumListens ELSE 1] }

InitDrain ==
    \E n \in 0..MaxLoad : \E listens \in DrainLoads(n) :
        /\ client = add_listens(new, listens)
        /\ now = 0
        /\ obs = Observation("add_listens", new, listens, NoResponse,
                             Result(client, "None", "None", <<>>))
        /\ hist = [loaded |-> n, ticks |-> 0, exchanges |-> <<>>]

TickAnswered ==
    \E r \in ServerResponses :
        \E res \in { tick(client, now, now + ExchangeDuration, r) } :
        LET t1 == now + ExchangeDuration
            resp == IF res.reqs = <<>> THEN NoResponse ELSE r
        IN  /\ hist.ticks < MaxTicks
            /\ res.exc = "None"
            /\ client' = res.self
            /\ now' = IF res.reqs = <<>> THEN now ELSE t1
            /\ obs' = Observation("tick", client, <<>>, resp, res)
            /\ hist' = [hist EXCEPT
                          !.ticks = @ + 1,
                          !.exchanges = @ \o [i \in 1..Len(res.reqs) |->
                              [type |-> res.reqs[i].type,
                               size |-> Len(res.reqs[i].listens)]]]

NextDrain == TickAnswered

SpecDrain == InitDrain /\ [][NextDrain]_vars

\* A server that hands out a new session id and new URLs at every handshake.
\* Here hist holds the number of handshake attempts, the credentials the
\* server granted, oldest first, and whether a session was open (granted and
\* not yet ended by BADSESSION or by the fall-back after hard failures) after
\* and before the last call of tick(), and whether a HandshakeError had
\* reached the host, after and before the last call of tick().
SessionTexts ==
    { OK \o <<LF, "S", LF, "N", LF, "U", LF>>,
      OK \o <<LF, "T", LF, "M", LF, "V", LF>>,
      BADAUTH \o <<LF>>,
      OK \o <<LF>>,
      BADSESSION \o <<LF>> }

SessionResponses == Responses(SessionTexts)

InitSession ==
    /\ client = new
    /\ now = 0
    /\ obs = Observation("new", new, <<>>, NoResponse,
                         Result(new, "None", "None", <<>>))
    /\ hist = [handshakes |-> 0, grants |-> <<>>, open |-> FALSE,
               was_open |-> FALSE, fatal |-> FALSE, was_fatal |-> FALSE]

TickSession ==
    \E r \in SessionResponses :
        \E res \in { tick(client, now, now + ExchangeDuration, r) } :
        LET t1 == now + ExchangeDuration
            resp == IF res.reqs = <<>> THEN NoResponse ELSE r
            attempted == "handshake" \in Types(res.reqs)
            granted == attempted /\ res.exc = "None"
            ended == \/ res.exc = "BadSessionError"
                     \/ IsHardFailure(res.exc) /\ res.self.state = "no_session"
            lines == split(r.text)
        IN  /\ hist.handshakes + (IF attempted THEN 1 ELSE 0) <= MaxHandshakes
            /\ client' = res.self
            /\ now' = IF attempted THEN t1 ELSE now
            /\ obs' = Observation("tick", client, <<>>, resp, res)
            /\ hist' = [handshakes |->
                            hist.handshakes + (IF attempted THEN 1 ELSE 0),
                        grants |->
                            IF granted
                            THEN Append(hist.grants,
                                        [session |-> lines[2],
                                         nowplaying_url |-> lines[3],
                                         scrobble_url |-> lines[4]])
                            ELSE hist.grants,
                        open |-> IF granted THEN TRUE
                                 ELSE IF ended THEN FALSE ELSE hist.open,
                        was_open |-> hist.open,
                        fatal |-> hist.fatal \/ res.raised \in HandshakeError,
                        was_fatal |-> hist.fatal]

NextSession == AddListens \/ SendNowplaying \/ TickSession \/ Advance

SpecSession == InitSession /\ [][NextSession]_vars

\* A host that calls the methods of Network itself, and a server that
\* answers with any status code and any body.  No history is kept.
StatusCodes == {200, 204, 300, 304, 404, 503}

NetworkHandshakeTexts ==
    { OK \o <<LF, "S", LF, "N", LF, "U", LF>>,
      OK \o <<LF, "T", LF, "M", LF, "V">>,
      OK \o <<LF, "S", LF, "N", LF>>,
      OK \o <<LF, "S", LF, "N">>,
      OK \o <<LF>>,
      OK \o <<"A", "Y", LF, "S", LF, "N", LF, "U", LF>>,
      BANNED,
      BANNED \o <<LF>>,
      BANNED \o <<" ", "x", LF>>,
      BADAUTH \o <<LF>>,
      BADTIME \o <<LF>>,
      BADSESSION \o <<LF>>,
      FAILED \o <<" ", "x", LF>>,
      <<>> }

NetworkPostTexts ==
    { OK \o <<LF>>,
      OK,
      OK \o <<"A", "Y", LF>>,
      <<" ">> \o OK \o <<LF>>,
      BADSESSION \o <<LF>>,
      BADSESSION \o <<" ", "x", LF>>,
      BADAUTH \o <<LF>>,
      FAILED \o <<" ", "x", LF>>,
      FAILED \o <<LF>> \o OK \o <<LF>>,
      <<>> }

NetworkResponses ==
    { [exception |-> TRUE, status_code |-> 0, text |-> <<>>] }
    \cup [exception : {FALSE}, status_code : StatusCodes,
          text : NetworkHandshakeTexts \cup NetworkPostTexts]

InitNetwork ==
    /\ client = new
    /\ now = 0
    /\ obs = Observation("new", new, <<>>, NoResponse,
                         Result(new, "None", "None", <<>>))
    /\ hist = <<>>

\* the host's call of a method of Network with the outcome m
Called(op, arg, r, m) ==
    /\ client' = m.self
    /\ obs' = Observation(op, client, arg,
                          IF m.reqs = <<>> THEN NoResponse ELSE r,
                          Result(m.self, m.exc, m.exc, m.reqs))
    /\ UNCHANGED <<now, hist>>

CallHandshake ==
    \E r \in NetworkResponses :
        Called("handshake", <<>>, r, handshake(client, r))

CallNowplaying ==
    \E r \in NetworkResponses : \E listen \in Listens :
        Called("nowplaying", <<listen>>, r, nowplaying(client, listen, r))

CallScrobble ==
    \E r \in NetworkResponses : \E listens \in ShortInputs :
        Called("scrobble", listens, r, scrobble(client, listens, r))

NextNetwork == CallHandshake \/ CallNowplaying \/ CallScrobble

SpecNetwork == InitNetwork /\ [][NextNetwork]_vars

\* A host that uses the Delay object by itself, built with options of its
\* choice.  Here obs holds the last call of a method of the Delay: the Delay
\* before it, the clock reading at the call and the value returned; hist
\* counts the calls that read the clock into start_time.
DelayOptions ==
    [ base : {1, 3, SecondsPerDay},
      max : {2, 2 * SecondsPerDay},
      multiplier : {0, 1, 2} ]

DelayCall(op, pre, ret) == [op |-> op, pre |-> pre, at |-> now, ret |-> ret]

InitDelay ==
    \E options \in DelayOptions :
        /\ client = [new EXCEPT !.delay = Delay_init(options)]
        /\ now = 0
        /\ obs = DelayCall("new", client.delay, "None")
        /\ hist = [updates |-> 0]

DelayIncrease ==
    /\ client' = [client EXCEPT !.delay = Delay_increase(client.delay)]
    /\ obs' = DelayCall("increase", client.delay, "None")
    /\ UNCHANGED <<now, hist>>

DelayUpdate ==
    /\ hist.updates < MaxUpdates
    /\ client' = [client EXCEPT !.delay = Delay_update(client.delay, now)]
    /\ obs' = DelayCall("update", client.delay, "None")
    /\ hist' = [hist EXCEPT !.updates = @ + 1]
    /\ UNCHANGED now

DelayReset ==
    /\ client' = [client EXCEPT !.delay = Delay_reset(client.delay)]
    /\ obs' = DelayCall("reset", client.delay, "None")
    /\ UNCHANGED <<now, hist>>

DelayStart ==
    /\ hist.updates < MaxUpdates
    /\ client' = [client EXCEPT !.delay = Delay_start(client.delay, now)]
    /\ obs' = DelayCall("start", client.delay, "None")
    /\ hist' = [hist EXCEPT !.updates = @ + 1]
    /\ UNCHANGED now

DelayIsActive ==
    /\ obs' = DelayCall("is_active", client.delay,
                        Delay_is_active(client.delay, now))
    /\ UNCHANGED <<client, now, hist>>

\* Time passes until a whole number of days before the end of the armed
\* delay, or until one clock unit later than that.
AdvanceDays ==
    \E d \in {0, 1} :
        LET t == Delay_end(client.delay) - SecondsPerDay * UnitsPerSecond + d
        IN  /\ client.delay.seconds > 0
            /\ client.delay.start_time # NoTime
            /\ t > now
            /\ now' = t
            /\ UNCHANGED <<client, obs, hist>>

NextDelay ==
    \/ DelayIncrease \/ DelayUpdate \/ DelayReset \/ DelayStart
    \/ DelayIsActive \/ AdvanceDays \/ AdvanceWithin \/ Advance

SpecDelay == InitDelay /\ [][NextDelay]_vars

\* A host that builds one Listen and calls its methods.  Here client is the
\* Listen, and obs the last call: the method, its argument, the value it
\* returned and the exception it raised.  No history is kept.
ListenLengths == {None} \cup { int(n) : n \in {0, 29, 30, 31, 109, 111, 480, 481} }

ListenObjects ==
    [ date : {0, 3},
      artist_name : {str("A")},
      track_title : {str("T")},
      album_title : {None, str(""), str("B")},
      length : ListenLengths,
      tracknumber : {None, int(0), int(1)},
      mb_trackid : {None, str("M")},
      source : {str("P")},
      rating : {None, str("L")} ]

\* the time from the date of the listen to the reference, in seconds: the
\* play times the lengths require, a second before each, a second before
\* the date, and one day more than some of these
GapSeconds ==
    {-1, 0, 14, 15, 16, 55, 56, 239, 240,
     SecondsPerDay, SecondsPerDay + 10, SecondsPerDay + 240}

\* the references of a listen: none, or an instant a whole number of
\* seconds, or that and one clock unit, from its date
References(self) ==
    {None} \cup { datetime(self.date + g * UnitsPerSecond + h) :
                    g \in GapSeconds, h \in {0, 1} }

\* the indices scrobble_params is called with
Indices == {0, 1, BatchSize - 1}

ListenCall(op, arg, m) == [op |-> op, arg |-> arg, ret |-> m.ret, exc |-> m.exc]

InitListen ==
    /\ client \in ListenObjects
    /\ now = 0
    /\ obs = ListenCall("new", None, Returned(None, "None"))
    /\ hist = <<>>

CallEligible ==
    \E reference \in References(client) :
        /\ obs' = ListenCall("eligible_for_scrobbling", reference,
                             Listen_eligible_for_scrobbling(client, reference))
        /\ UNCHANGED <<client, now, hist>>

CallRequiredPlayTime ==
    /\ obs' = ListenCall("required_play_time", None,
                         Listen_required_play_time(client))
    /\ UNCHANGED <<client, now, hist>>

CallNowplayingParams ==
    /\ obs' = ListenCall("nowplaying_params", None,
                         Returned(Listen_nowplaying_params(client), "None"))
    /\ UNCHANGED <<client, now, hist>>

CallScrobbleParams ==
    \E idx \in Indices :
        /\ obs' = ListenCall("scrobble_params", idx,
                             Returned(Listen_scrobble_params(client, idx), "None"))
        /\ UNCHANGED <<client, now, hist>>

NextListen ==
    \/ CallEligible \/ CallRequiredPlayTime
    \/ CallNowplayingParams \/ CallScrobbleParams

SpecListen == InitListen /\ [][NextListen]_vars

\* A server that may stay silent, and a host that is stuck once a call of
\* tick() does not return.
Hung == obs.raised = "blocked"

SilentResponses == ServerResponses \cup {Silent}

TickUnanswered ==
    \E r \in SilentResponses :
        \E t1 \in { now + (IF r = Silent THEN Timeout * UnitsPerSecond
                           ELSE ExchangeDuration) } :
        \E res \in { tick(client, now, t1, r) } :
        LET resp == IF res.reqs = <<>> THEN NoResponse ELSE r
        IN  /\ History(hist, res, FALSE).handshakes <= MaxHandshakes
            /\ client' = res.self
            /\ now' = IF "handshake" \in Types(res.reqs) THEN t1 ELSE now
            /\ obs' = Observation("tick", client, <<>>, resp, res)
            /\ hist' = History(hist, res, FALSE)

NextSilent ==
    \/ ~Hung /\ AddListens
    \/ ~Hung /\ SendNowplaying
    \/ ~Hung /\ TickUnanswered
    \/ ~Hung /\ Advance

SpecSilent == Init /\ [][NextSilent]_vars

\* A host whose listens are accounted for.  Here hist holds the number of
\* handshake attempts, the number of calls of add_listens and, for every
\* listen, how often it was handed to
\* add_listens and how often it was part of a scrobble request that was
\* answered with success.
InitLedger ==
    /\ client = new
    /\ now = 0
    /\ obs = Observation("new", new, <<>>, NoResponse,
                         Result(new, "None", "None", <<>>))
    /\ hist = [handshakes |-> 0, adds |-> 0,
               added |-> [l \in Listens |-> 0],
               acked |-> [l \in Listens |-> 0]]

\* the answers of a server that fails, opens a session, takes a submission
\* or ends the session
LedgerTexts ==
    { OK \o <<LF, "S", LF, "N", LF, "U", LF>>,
      OK \o <<LF>>,
      BADSESSION \o <<LF>> }

LedgerResponses == Responses(LedgerTexts)

\* the host hands over one listen, or a bulk of BulkLen
AddCounted ==
    \E listens \in { <<l>> : l \in Listens } \cup BulkInputs :
        /\ hist.adds < MaxAdds
        /\ client' = add_listens(client, listens)
        /\ obs' = Observation("add_listens", client, listens, NoResponse,
                              Result(client', "None", "None", <<>>))
        /\ hist' = [hist EXCEPT !.adds = @ + 1, !.added =
                        [l \in Listens |->
                            @[l] + Cardinality({ i \in 1..Len(listens) :
                                                   listens[i] = l })]]
        /\ UNCHANGED now

\* the listens of the request of res when it is a scrobble request that was
\* answered with success
Acknowledged(res) ==
    IF /\ res.reqs # <<>>
       /\ res.reqs[1].type = "scrobble"
       /\ res.exc = "None"
    THEN res.reqs[1].listens ELSE <<>>

TickCounted ==
    \E r \in LedgerResponses :
        \E res \in { tick(client, now, now + ExchangeDuration, r) } :
            \E batch \in { Acknowledged(res) } :
                \E attempted \in { "handshake" \in Types(res.reqs) } :
                    /\ hist.handshakes + (IF attempted THEN 1 ELSE 0)
                           <= MaxHandshakes
                    /\ client' = res.self
                    /\ now' = IF attempted THEN now + ExchangeDuration ELSE now
                    /\ obs' = Observation("tick", client, <<>>,
                                          IF res.reqs = <<>> THEN NoResponse
                                          ELSE r, res)
                    /\ hist' = [hist EXCEPT
                                  !.handshakes = @ + (IF attempted THEN 1 ELSE 0),
                                  !.acked =
                                      [l \in Listens |->
                                          @[l] + Cardinality(
                                              { i \in 1..Len(batch) :
                                                  batch[i] = l })]]

NextLedger == AddCounted \/ TickCounted \/ Advance

SpecLedger == InitLedger /\ [][NextLedger]_vars

\* A host that has handed over its work and keeps calling tick() through a
\* long outage: up to MaxAttempts handshakes.
InitLoaded ==
    \E listens \in { <<>>, <<NumListens, 1>> } :
        /\ client \in { add_listens(new, listens),
                        send_nowplaying(add_listens(new, listens), NumListens) }
        /\ now = 0
        /\ obs = Observation("add_listens", new, listens, NoResponse,
                             Result(client, "None", "None", <<>>))
        /\ hist = [sent |-> {}, before |-> {}, consecutive |-> 0,
                   since_handshake |-> 0, handshakes |-> 0]

NextLoaded == TickRetry \/ Advance

SpecLoaded == InitLoaded /\ [][NextLoaded]_vars

\* The two engines side by side, driven by the same host calls, the same
\* clock and the same server answers.  Here client holds both objects, obs
\* the last host call with the result each engine gave, and hist the number
\* of handshake attempts of the LegacyScrobbler object.
Pair(legacy, exported) == [legacy |-> legacy, exported |-> exported]

PairObservation(op, arg, resp, legacy, exported) ==
    [op |-> op, arg |-> arg, resp |-> resp,
     legacy |-> [reqs |-> legacy.reqs, exc |-> legacy.exc,
                 raised |-> legacy.raised],
     exported |-> [reqs |-> exported.reqs, exc |-> exported.exc,
                   raised |-> exported.raised]]

InitPair ==
    /\ client = Pair(new, ScrobblerClient_new)
    /\ now = 0
    /\ obs = PairObservation("new", <<>>, NoResponse,
                             Result(new, "None", "None", <<>>),
                             Result(ScrobblerClient_new, "None", "None", <<>>))
    /\ hist = [handshakes |-> 0]

\* add_listens on the one engine, enqueue_listens on the other
PairAdd ==
    \E listens \in ShortInputs :
        /\ Len(client.legacy.queue) + Len(listens) <= MaxQueue
        /\ client' = Pair(add_listens(client.legacy, listens),
                          ScrobblerClient_enqueue_listens(client.exported, listens))
        /\ obs' = PairObservation("add_listens", listens, NoResponse,
                                  Result(client'.legacy, "None", "None", <<>>),
                                  Result(client'.exported, "None", "None", <<>>))
        /\ UNCHANGED <<now, hist>>

\* send_nowplaying on the one engine, set_nowplaying on the other
PairNowplaying ==
    \E listen \in Listens :
        /\ client' = Pair(send_nowplaying(client.legacy, listen),
                          ScrobblerClient_set_nowplaying(client.exported, listen))
        /\ obs' = PairObservation("send_nowplaying", <<listen>>, NoResponse,
                                  Result(client'.legacy, "None", "None", <<>>),
                                  Result(client'.exported, "None", "None", <<>>))
        /\ UNCHANGED <<now, hist>>

\* tick() on both engines, at the same clock readings and with the same
\* answer of the server
PairTick ==
    \E r \in ServerResponses :
        \E legacy \in { tick(client.legacy, now, now + ExchangeDuration, r) } :
        \E exported \in { ScrobblerClient_tick(client.exported, now,
                                                now + ExchangeDuration, r) } :
        LET t1 == now + ExchangeDuration
            attempted == "handshake" \in Types(legacy.reqs)
        IN  /\ hist.handshakes + (IF attempted THEN 1 ELSE 0) <= MaxHandshakes
            /\ client' = Pair(legacy.self, exported.self)
            /\ now' = IF attempted THEN t1 ELSE now
            /\ obs' = PairObservation("tick", <<>>, r, legacy, exported)
            /\ hist' = [handshakes |->
                            hist.handshakes + (IF attempted THEN 1 ELSE 0)]

\* Time passes until one second, or one clock unit, before the end of the
\* delay armed in the LegacyScrobbler object, or until its end.
PairAdvance ==
    \E d \in {0, 1, UnitsPerSecond} :
        /\ client.legacy.delay.seconds > 0
        /\ client.legacy.delay.start_time # NoTime
        /\ Delay_end(client.legacy.delay) - d > now
        /\ now' = Delay_end(client.legacy.delay) - d
        /\ UNCHANGED <<client, obs, hist>>

NextPair == PairAdd \/ PairNowplaying \/ PairTick \/ PairAdvance

SpecPair == InitPair /\ [][NextPair]_vars

\* A host that does not serialize access: add_listens and send_nowplaying
\* run on another thread while tick() waits for the answer to its scrobble
\* request.  Here hist holds the number of handshake attempts, the position
\* of tick() ("host" while no call is under way, "exchange" between the
\* moment the batch is taken and the moment the answer is handled) and the
\* batch taken.
InitRace ==
    /\ client = new
    /\ now = 0
    /\ obs = Observation("new", new, <<>>, NoResponse,
                         Result(new, "None", "None", <<>>))
    /\ hist = [handshakes |-> 0, pc |-> "host", scrobble_slice |-> <<>>]

\* the third branch of tick() is the one taken
Scrobbling(self, t) ==
    /\ ~(self.state = "no_session" /\ ~Delay_is_active(self.delay, t))
    /\ ~(self.state = "idle" /\ self.np # NoListen)
    /\ self.state = "idle" /\ Len(self.queue) > 0

\* a call of tick() that takes one of the other branches
RaceTick ==
    \E r \in ServerResponses :
        \E res \in { tick(client, now, now + ExchangeDuration, r) } :
        LET t1 == now + ExchangeDuration
            resp == IF res.reqs = <<>> THEN NoResponse ELSE r
            attempted == "handshake" \in Types(res.reqs)
        IN  /\ hist.pc = "host"
            /\ ~Scrobbling(client, now)
            /\ hist.handshakes + (IF attempted THEN 1 ELSE 0) <= MaxHandshakes
            /\ client' = res.self
            /\ now' = IF attempted THEN t1 ELSE now
            /\ obs' = Observation("tick", client, <<>>, resp, res)
            /\ hist' = [hist EXCEPT
                          !.handshakes = @ + (IF attempted THEN 1 ELSE 0)]

\* tick() takes the batch from the queue and sends the scrobble request
RaceTakeBatch ==
    /\ hist.pc = "host"
    /\ Scrobbling(client, now)
    /\ hist' = [hist EXCEPT !.pc = "exchange",
                            !.scrobble_slice = islice(client.queue, 0, BatchSize)]
    /\ UNCHANGED <<client, now, obs>>

\* the answer arrives and _execute_request handles it, on the object as it
\* is by then
RaceAnswer ==
    \E r \in ServerResponses :
        \E res \in { _execute_request(client, "scrobble",
                                       "on_successful_scrobble_cb", "None",
                                       hist.scrobble_slice, r,
                                       now + ExchangeDuration) } :
            /\ hist.pc = "exchange"
            /\ client' = res.self
            /\ obs' = Observation("tick", client, <<>>, r, res)
            /\ hist' = [hist EXCEPT !.pc = "host", !.scrobble_slice = <<>>]
            /\ UNCHANGED now

NextRace ==
    AddListens \/ SendNowplaying \/ RaceTick \/ RaceTakeBatch \/ RaceAnswer
        \/ Advance

SpecRace == InitRace /\ [][NextRace]_vars

\* A server that fails and then recovers for good, and a host that has
\* handed over its work and keeps calling tick().  Here hist holds the
\* number of handshake attempts before the recovery, whether the server has
\* recovered, and the failure counter and the state at that moment.
InitRecovery ==
    \E listens \in { <<>>, <<NumListens, 1>> } :
        /\ client \in { add_listens(new, listens),
                        send_nowplaying(add_listens(new, listens), NumListens) }
        /\ now = 0
        /\ obs = Observation("add_listens", new, listens, NoResponse,
                             Result(client, "None", "None", <<>>))
        /\ hist = [handshakes |-> 0, recovered |-> FALSE,
                   hard_fails |-> 0, state |-> "no_session"]

\* the answers of a server that is down or up
RecoveryResponses ==
    { r \in Responses({ OK \o <<LF, "S", LF, "N", LF, "U", LF>> }) :
        ~raise_for_status(r.status_code) }

\* One call of tick() before the recovery.
TickBefore ==
    \E r \in RecoveryResponses :
        \E res \in { tick(client, now, now + ExchangeDuration, r) } :
        LET t1 == now + ExchangeDuration
            resp == IF res.reqs = <<>> THEN NoResponse ELSE r
            attempted == "handshake" \in Types(res.reqs)
        IN  /\ ~hist.recovered
            /\ hist.handshakes + (IF attempted THEN 1 ELSE 0) <= MaxRetries
            /\ client' = res.self
            /\ now' = IF attempted THEN t1 ELSE now
            /\ obs' = Observation("tick", client, <<>>, resp, res)
            /\ hist' = [hist EXCEPT
                          !.handshakes = @ + (IF attempted THEN 1 ELSE 0)]

\* from here on every exchange succeeds
Recover ==
    /\ ~hist.recovered
    /\ hist' = [hist EXCEPT !.recovered = TRUE,
                            !.hard_fails = client.hard_fails,
                            !.state = client.state]
    /\ UNCHANGED <<client, now, obs>>

\* the answer of the recovered server to the request tick() sends, if any
Success(self) ==
    [exception |-> FALSE, status_code |-> 200,
     text |-> IF self.state = "no_session"
              THEN OK \o <<LF, "S", LF, "N", LF, "U", LF>>
              ELSE OK \o <<LF>>]

\* One call of tick() after the recovery: the exchange, if there is one,
\* succeeds.
TickRecovered ==
    \E res \in { tick(client, now, now + ExchangeDuration, Success(client)) } :
        /\ hist.recovered
        /\ client' = res.self
        /\ now' = IF "handshake" \in Types(res.reqs)
                  THEN now + ExchangeDuration ELSE now
        /\ obs' = Observation("tick", client, <<>>,
                              IF res.reqs = <<>> THEN NoResponse
                              ELSE Success(client), res)
        /\ UNCHANGED hist

NextRecovery == TickBefore \/ Recover \/ TickRecovered \/ Advance

\* the host keeps calling tick() and time keeps advancing
SpecRecovery ==
    /\ InitRecovery
    /\ [][NextRecovery]_vars
    /\ WF_vars(TickRecovered)
    /\ WF_vars(Advance)

(***************************************************************************)
(* Properties.                                                             *)
(***************************************************************************)
\* the last host call was a tick() that sent exactly one request of this type
TickSent(type) ==
    /\ obs.op = "tick"
    /\ Len(obs.reqs) = 1
    /\ obs.reqs[1].type = type

\* the last host call was a tick() that sent a nowplaying or scrobble request
TickSubmitted == TickSent("nowplaying") \/ TickSent("scrobble")

\* C1: every call of tick() performs at most one HTTP exchange, in every
\* reachable state and whatever the server answers.
C1_AtMostOneExchange == obs.op = "tick" => Len(obs.reqs) <= 1

\* a handshake succeeded while a nowplaying listen was pending: the tick
\* stopped after the handshake
C1_Witness ==
    /\ TickSent("handshake")
    /\ obs.exc = "None"
    /\ client.state = "idle"
    /\ client.np # NoListen

\* C2: a batch submission by tick() removes exactly min(50, len(queue))
\* elements from the head of the queue when the scrobble request succeeds,
\* and leaves the queue unchanged on HardFailure, RequestsError or
\* BadSession; there is no other outcome.
C2_BatchRemovedOrKept ==
    (/\ obs.op = "tick"
     /\ obs.pre.state = "idle"
     /\ obs.pre.np = NoListen
     /\ Len(obs.pre.queue) > 0)
    => LET q == obs.pre.queue
           n == IF Len(q) < 50 THEN Len(q) ELSE 50
       IN  \/ /\ obs.exc = "None"
              /\ Len(client.queue) = Len(q) - n
              /\ \A i \in 1..Len(client.queue) : client.queue[i] = q[n + i]
           \/ /\ obs.exc \in {"HardFailureError", "RequestsError",
                              "BadSessionError"}
              /\ client.queue = q

\* a batch of 50 was cut off a longer queue, and the rest stayed queued
C2_Witness ==
    /\ TickSent("scrobble")
    /\ obs.exc = "None"
    /\ Len(obs.pre.queue) > 50
    /\ Len(client.queue) = Len(obs.pre.queue) - 50

\* C3 as claimed: for listens a and b with a.date < b.date, the first
\* scrobble request carrying a is not later than the first one carrying b.
C3_OlderNeverLater ==
    \A a \in Listens, b \in Listens :
        date(a) < date(b) => <<b, a>> \notin hist.before

\* C3 as amended: when tick() sends a scrobble request, every queued listen
\* older than a listen of the request is in the request too, at a lower
\* index.
C3_OlderQueuedGoesFirst ==
    TickSent("scrobble")
    => LET q == obs.pre.queue
           batch == obs.reqs[1].listens
       IN  \A j \in 1..Len(batch), i \in 1..Len(q) :
               date(q[i]) < date(batch[j]) => (i < j /\ batch[i] = q[i])

\* listens handed over newest first went out oldest first in one request
C3_Witness ==
    /\ TickSent("scrobble")
    /\ Len(obs.reqs[1].listens) > 1
    /\ date(obs.reqs[1].listens[1]) < date(obs.reqs[1].listens[2])

\* C4: in every reachable state the queue is sorted ascending by date, in
\* particular after add_listens(S) for any S in any order.
C4_QueueSorted ==
    \A i \in 1..Len(client.queue), j \in 1..Len(client.queue) :
        i < j => date(client.queue[i]) <= date(client.queue[j])

\* add_listens was handed a later listen before an earlier one
C4_Witness ==
    /\ obs.op = "add_listens"
    /\ \E i \in 1..Len(obs.arg), j \in 1..Len(obs.arg) :
           i < j /\ date(obs.arg[i]) > date(obs.arg[j])

\* C5: after a tick() whose handshake succeeded, hard_fails = 0,
\* delay.seconds = 0, state = idle, and the session id and the two URLs of
\* the server's answer are stored, whatever hard_fails and delay.seconds were.
C5_HandshakeSuccess ==
    (TickSent("handshake") /\ obs.exc = "None")
    => LET lines == split(obs.resp.text)
       IN  /\ client.hard_fails = 0
           /\ client.delay.seconds = 0
           /\ client.state = "idle"
           /\ Len(lines) >= 4
           /\ client.session = lines[2]
           /\ client.nowplaying_url = lines[3]
           /\ client.scrobble_url = lines[4]

\* a handshake succeeded after failures had raised the counter and the delay
C5_Witness ==
    /\ TickSent("handshake")
    /\ obs.exc = "None"
    /\ obs.pre.hard_fails > 0
    /\ obs.pre.delay.seconds > 0

\* C6: when a request of tick() ends in HardFailure or RequestsError,
\* hard_fails grows by exactly 1, delay.increase() is applied exactly once
\* (60 from 0, else doubled up to 7200), the state becomes no_session if it
\* was idle and hard_fails is now >= 3 and else keeps its label, and no
\* exception reaches the host.
C6_HardFailure ==
    (obs.op = "tick" /\ IsHardFailure(obs.exc))
    => /\ Len(obs.reqs) = 1
       /\ client.hard_fails = obs.pre.hard_fails + 1
       /\ client.delay.seconds =
              IF obs.pre.delay.seconds = 0 THEN 60
              ELSE IF 2 * obs.pre.delay.seconds > 7200 THEN 7200
              ELSE 2 * obs.pre.delay.seconds
       /\ client.state =
              IF obs.pre.state = "idle" /\ client.hard_fails >= 3
              THEN "no_session" ELSE obs.pre.state
       /\ obs.raised = "None"

\* the third hard failure of a submission sent the engine back to no_session
C6_Witness ==
    /\ TickSubmitted
    /\ IsHardFailure(obs.exc)
    /\ obs.pre.state = "idle"
    /\ client.state = "no_session"
    /\ client.delay.seconds = 240

\* the third hard failure of a session happened in a nowplaying or scrobble
\* request
ThirdFailureInSubmission ==
    /\ TickSubmitted
    /\ IsHardFailure(obs.exc)
    /\ client.hard_fails >= 3

\* C7 as claimed: when hard_fails reaches 3 by a hard failure of a
\* submission, that tick makes the state no_session and the session absent.
C7_FallbackClearsSession ==
    ThirdFailureInSubmission
    => (client.state = "no_session" /\ client.session = None)

\* C7 as amended: that tick makes the state no_session and leaves the
\* stored session as it was (present).
C7_FallbackKeepsSession ==
    ThirdFailureInSubmission
    => /\ client.state = "no_session"
       /\ client.session = obs.pre.session
       /\ client.session # None

C7_Witness == ThirdFailureInSubmission /\ obs.pre.hard_fails = 2

\* a hard failure of a submission in state idle
FailureInIdle ==
    /\ TickSubmitted
    /\ obs.pre.state = "idle"
    /\ IsHardFailure(obs.exc)

\* C8: the engine leaves idle by hard failures only after three failed
\* requests with no successful request between them.
C8_ThreeConsecutive ==
    (FailureInIdle /\ client.state = "no_session") => hist.consecutive >= 3

\* C9: after a tick() whose nowplaying or scrobble request was answered
\* BADSESSION, the session is absent, state = no_session, hard_fails and
\* the queue are unchanged, and no exception reaches the host.
C9_BadSession ==
    (obs.op = "tick" /\ obs.exc = "BadSessionError")
    => /\ TickSubmitted
       /\ client.session = None
       /\ client.state = "no_session"
       /\ client.hard_fails = obs.pre.hard_fails
       /\ client.queue = obs.pre.queue
       /\ obs.raised = "None"

\* a scrobble request was answered BADSESSION after an earlier hard failure
C9_Witness ==
    /\ TickSent("scrobble")
    /\ obs.exc = "BadSessionError"
    /\ obs.pre.hard_fails > 0
    /\ startswith(obs.resp.text, BADSESSION)

\* C10: when the handshake of tick() raises a HandshakeError, that error
\* reaches the host, and the state label, hard_fails, delay.seconds, the
\* stored session, the queue and np are unchanged.
C10_HandshakeError ==
    (obs.op = "tick" /\ obs.exc \in HandshakeError)
    => /\ TickSent("handshake")
       /\ obs.raised = obs.exc
       /\ client.state = obs.pre.state
       /\ client.hard_fails = obs.pre.hard_fails
       /\ client.delay.seconds = obs.pre.delay.seconds
       /\ client.session = obs.pre.session
       /\ client.nowplaying_url = obs.pre.nowplaying_url
       /\ client.scrobble_url = obs.pre.scrobble_url
       /\ client.queue = obs.pre.queue
       /\ client.np = obs.pre.np

\* BADAUTH answered a handshake retried after a failure, with work pending
C10_Witness ==
    /\ TickSent("handshake")
    /\ obs.exc = "BadAuthException"
    /\ obs.pre.hard_fails > 0
    /\ obs.pre.np # NoListen
    /\ Len(obs.pre.queue) > 0

\* C11: after a handshake attempt that ended in HardFailure or RequestsError
\* at time T and left delay.seconds = s, no call made at a time before T + s
\* performs an HTTP exchange.
C11_NoExchangeInBackoff ==
    [][ (/\ TickSent("handshake")
         /\ IsHardFailure(obs.exc)
         /\ now < Delay_end(client.delay))
        => /\ hist'.handshakes = hist.handshakes
           /\ (obs' # obs => obs'.reqs = <<>>) ]_vars

\* C12: in every reachable state delay.seconds is one of 0, 60, 120, 240,
\* 480, 960, 1920, 3840, 7200, so between 0 and 7200.
C12_DelayValues ==
    /\ 0 <= client.delay.seconds
    /\ client.delay.seconds <= 7200
    /\ client.delay.seconds \in {0, 60, 120, 240, 480, 960, 1920, 3840, 7200}

\* a request failed while the delay was 7200 seconds already
C12_Witness ==
    /\ obs.op = "tick"
    /\ IsHardFailure(obs.exc)
    /\ obs.pre.delay.seconds = 7200
    /\ client.delay.seconds = 7200

\* C13: after k handshake attempts from the initial state that all ended in
\* a hard failure, delay.seconds = min(7200, 60 * 2^(k-1)), hard_fails = k,
\* the state is no_session and no session is stored.
C13_ConsecutiveFailures ==
    (/\ client.scrobble_url = None
     /\ hist.handshakes > 0
     /\ hist.since_handshake = hist.handshakes)
    => LET k == hist.handshakes
       IN  /\ client.delay.seconds = Min(7200, 60 * 2^(k - 1))
           /\ client.hard_fails = k
           /\ client.state = "no_session"
           /\ client.session = None

\* the ninth failed handshake in a row: the delay stays at its maximum
C13_Witness ==
    /\ TickSent("handshake")
    /\ IsHardFailure(obs.exc)
    /\ client.scrobble_url = None
    /\ hist.handshakes = 9
    /\ hist.since_handshake = 9
    /\ obs.pre.delay.seconds = 7200

\* C14: a tick() that starts in state idle with np present sends the
\* nowplaying request for np and nothing else, also when the queue is not
\* empty; no tick() that starts with np present sends a scrobble request or
\* changes the queue.
C14_NowplayingFirst ==
    (obs.op = "tick" /\ obs.pre.np # NoListen)
    => /\ "scrobble" \notin Types(obs.reqs)
       /\ client.queue = obs.pre.queue
       /\ obs.pre.state = "idle"
          => /\ TickSent("nowplaying")
             /\ obs.reqs[1].listens = <<obs.pre.np>>

\* nowplaying went out, and succeeded, while listens were queued
C14_Witness ==
    /\ TickSent("nowplaying")
    /\ obs.exc = "None"
    /\ obs.pre.state = "idle"
    /\ Len(obs.pre.queue) > 0
    /\ client.np = NoListen

\* C15: from the initial state with n queued listens, no np and a server
\* that answers every request with success, the first tick() handshakes and
\* each following tick() sends one batch, of 50 listens or, last, of the
\* n mod 50 left over; after 1 + ceil(n / 50) ticks the queue is empty,
\* state = idle and hard_fails = 0.
C15_DrainInBatches ==
    LET n == hist.loaded
        batches == (n + 49) \div 50
        sent == hist.exchanges
    IN  /\ Len(sent) = Min(hist.ticks, 1 + batches)
        /\ \A i \in 1..Len(sent) :
               IF i = 1 THEN sent[i].type = "handshake"
               ELSE /\ sent[i].type = "scrobble"
                    /\ sent[i].size = IF (i - 1) * 50 <= n THEN 50 ELSE n % 50
        /\ hist.ticks >= 1
           => Len(client.queue) = n - Min(n, 50 * (hist.ticks - 1))
        /\ hist.ticks >= 1 + batches
           => /\ client.queue = <<>>
              /\ client.state = "idle"
              /\ client.hard_fails = 0

\* 120 listens went out in batches of 50, 50 and 20
C15_Witness ==
    /\ hist.loaded = 120
    /\ hist.ticks = 4
    /\ Len(hist.exchanges) = 4
    /\ hist.exchanges[2].size = 50
    /\ hist.exchanges[3].size = 50
    /\ hist.exchanges[4].size = 20
    /\ client.queue = <<>>

\* C16: every scrobble request sent by tick() is made from exactly the first
\* min(50, len(queue)) elements of the queue as it is at that tick, and its
\* parameters carry the element at queue position i under index i, for
\* these positions and no other index, so timestamps increase with the index.
C16_BatchIsQueueHead ==
    TickSent("scrobble")
    => LET q == obs.pre.queue
           n == IF Len(q) < 50 THEN Len(q) ELSE 50
           data == obs.reqs[1].data
       IN  /\ obs.reqs[1].listens = SubSeq(q, 1, n)
           /\ DOMAIN data = {"a", "i"} \X (0..(n - 1))
           /\ \A i \in 0..(n - 1) :
                  /\ data[<<"a", i>>] = q[i + 1]
                  /\ data[<<"i", i>>] = date(q[i + 1])
           /\ \A i \in 0..(n - 1), j \in 0..(n - 1) :
                  i < j => data[<<"i", i>>] <= data[<<"i", j>>]

\* a request of 50 listens was cut off a longer queue that holds listens of
\* two dates
C16_Witness ==
    /\ TickSent("scrobble")
    /\ Len(obs.pre.queue) > 50
    /\ Len(obs.reqs[1].listens) = 50
    /\ obs.reqs[1].data[<<"i", 0>>] < obs.reqs[1].data[<<"i", 49>>]

\* C17: every nowplaying or scrobble request of tick() is sent while a
\* session is open (a handshake has succeeded, and no BADSESSION and no
\* fall-back after hard failures has come since), and carries the session id
\* and the endpoint URL the most recent successful handshake was answered
\* with.
C17_SubmitsInOpenSession ==
    TickSubmitted
    => /\ hist.was_open
       /\ hist.grants # <<>>
       /\ LET granted == hist.grants[Len(hist.grants)]
              req == obs.reqs[1]
          IN  /\ req.s = granted.session
              /\ req.url = IF req.type = "scrobble" THEN granted.scrobble_url
                           ELSE granted.nowplaying_url

\* a request went out in the second session, whose credentials differ from
\* those of the first
C17_Witness ==
    /\ TickSubmitted
    /\ Len(hist.grants) = 2
    /\ hist.grants[1].session # hist.grants[2].session
    /\ obs.reqs[1].s = hist.grants[2].session

\* C18 as claimed: after a tick() that detected BadSession, the session id,
\* nowplaying_url and scrobble_url are all absent.
C18_BadSessionClearsAll ==
    (obs.op = "tick" /\ obs.exc = "BadSessionError")
    => /\ client.session = None
       /\ client.nowplaying_url = None
       /\ client.scrobble_url = None

\* C18 as amended: after a tick() that detected BadSession, the session id
\* is absent, and nowplaying_url and scrobble_url are as they were (present).
C18_BadSessionKeepsUrls ==
    (obs.op = "tick" /\ obs.exc = "BadSessionError")
    => /\ client.session = None
       /\ client.nowplaying_url = obs.pre.nowplaying_url
       /\ client.scrobble_url = obs.pre.scrobble_url
       /\ client.nowplaying_url # None
       /\ client.scrobble_url # None

\* a nowplaying request was answered BADSESSION in an open session
C18_Witness ==
    /\ TickSent("nowplaying")
    /\ obs.exc = "BadSessionError"
    /\ obs.pre.session # None
    /\ obs.reqs[1].url = obs.pre.nowplaying_url

\* C19 as claimed: once a HandshakeError has come out of tick(), no later
\* tick() performs an HTTP exchange.
C19_TerminalAfterFatal ==
    (obs.op = "tick" /\ hist.was_fatal) => obs.reqs = <<>>

\* C19 as amended: once a HandshakeError has come out of tick(), the engine
\* goes on as before: a later tick() in state no_session attempts a
\* handshake exactly when the delay is not active, and a later tick() in
\* state idle sends the pending nowplaying or the next batch.
C19_RetriesAfterFatal ==
    [][ (hist.fatal /\ obs'.op = "tick" /\ obs' # obs)
        => /\ client.state \in {"no_session", "idle"}
           /\ client.state = "no_session"
              => IF Delay_is_active(client.delay, now)
                 THEN obs'.reqs = <<>>
                 ELSE Types(obs'.reqs) = {"handshake"}
           /\ (client.state = "idle" /\ client.np # NoListen)
              => Types(obs'.reqs) = {"nowplaying"}
           /\ (client.state = "idle" /\ client.np = NoListen
                 /\ client.queue # <<>>)
              => Types(obs'.reqs) = {"scrobble"} ]_vars

\* the handshake after the one answered BADAUTH succeeded
C19_Witness ==
    /\ TickSent("handshake")
    /\ hist.was_fatal
    /\ obs.exc = "None"
    /\ client.state = "idle"

\* the number of times l occurs in seq
Count(seq, l) == Cardinality({ i \in 1..Len(seq) : seq[i] = l })

\* C20: add_listens(S) makes the multiset of the queue the old multiset plus
\* S, sends no request, and leaves the state label, the session, the URLs,
\* hard_fails, the delay and np unchanged.
C20_AddListensAddsAll ==
    obs.op = "add_listens"
    => /\ \A l \in Listens :
              Count(client.queue, l) = Count(obs.pre.queue, l) + Count(obs.arg, l)
       /\ Len(client.queue) = Len(obs.pre.queue) + Len(obs.arg)
       /\ obs.reqs = <<>>
       /\ client.state = obs.pre.state
       /\ client.session = obs.pre.session
       /\ client.nowplaying_url = obs.pre.nowplaying_url
       /\ client.scrobble_url = obs.pre.scrobble_url
       /\ client.hard_fails = obs.pre.hard_fails
       /\ client.delay = obs.pre.delay
       /\ client.np = obs.pre.np

\* a listen that was queued already was added once more, in an open session
\* with a failure counted
C20_Witness ==
    /\ obs.op = "add_listens"
    /\ \E l \in Listens : Count(obs.pre.queue, l) > 0 /\ Count(obs.arg, l) > 0
    /\ obs.pre.state = "idle"
    /\ obs.pre.hard_fails > 0

\* C21: send_nowplaying(L) sets np to L, replacing a pending listen, changes
\* nothing else and sends nothing; np becomes absent only by a tick() whose
\* nowplaying request succeeded; a tick() whose nowplaying request failed
\* with HardFailure, RequestsError or BadSession leaves np as it was, and
\* nowplaying requests have no other outcome.
C21_NowplayingPending ==
    /\ obs.op = "send_nowplaying"
       => /\ client = [obs.pre EXCEPT !.np = obs.arg[1]]
          /\ client.np \in Listens
          /\ obs.reqs = <<>>
    /\ (obs.pre.np # NoListen /\ client.np = NoListen)
       => (TickSent("nowplaying") /\ obs.exc = "None")
    /\ (TickSent("nowplaying") /\ obs.exc # "None")
       => /\ obs.exc \in {"HardFailureError", "RequestsError", "BadSessionError"}
          /\ client.np = obs.pre.np
          /\ client.np = obs.reqs[1].listens[1]
    /\ (TickSent("nowplaying") /\ obs.exc = "None") => client.np = NoListen

\* a listen replaced the one that had stayed pending after a failed
\* nowplaying request
C21_Witness ==
    /\ obs.op = "send_nowplaying"
    /\ obs.pre.np # NoListen
    /\ obs.pre.np # client.np
    /\ obs.pre.hard_fails > 0
    /\ obs.pre.state = "idle"

\* the last call was this method of Network, and its HTTP exchange was
\* answered with a 2xx status
Answered(op) ==
    /\ obs.op = op
    /\ obs.reqs # <<>>
    /\ ~obs.resp.exception
    /\ obs.resp.status_code \in 200..299

HandshakeAnswered == Answered("handshake")

\* the stored session credentials
Credentials(self) == <<self.session, self.nowplaying_url, self.scrobble_url>>

\* C22: handshake() on a successful HTTP response classifies the body by
\* its first LF-separated line: OK with at least 4 lines returns and stores
\* lines 1 to 3 as session, nowplaying_url and scrobble_url; BANNED, BADAUTH
\* and BADTIME raise ClientBanned, BadAuth and BadTime; every other body
\* raises HardFailure; every outcome other than success (a transport error
\* and an error status included) leaves the stored credentials unchanged.
C22_HandshakeClassified ==
    /\ HandshakeAnswered
       => LET lines == split(obs.resp.text)
          IN  /\ (lines[1] = OK /\ Len(lines) >= 4)
                 => /\ obs.exc = "None"
                    /\ Credentials(client) = <<lines[2], lines[3], lines[4]>>
              /\ lines[1] = BANNED => obs.exc = "ClientBannedException"
              /\ lines[1] = BADAUTH => obs.exc = "BadAuthException"
              /\ lines[1] = BADTIME => obs.exc = "BadTimeException"
              /\ (/\ ~(lines[1] = OK /\ Len(lines) >= 4)
                  /\ lines[1] \notin {BANNED, BADAUTH, BADTIME})
                 => obs.exc = "HardFailureError"
    /\ (obs.op = "handshake" /\ obs.exc # "None")
       => Credentials(client) = Credentials(obs.pre)

\* a handshake answered OK with three lines only failed, and the
\* credentials of the session before it stayed
C22_Witness ==
    /\ HandshakeAnswered
    /\ obs.resp.text = OK \o <<LF, "S", LF, "N">>
    /\ obs.exc = "HardFailureError"
    /\ client.session = <<"T">>
    /\ client.scrobble_url = <<"V">>

\* C23: for handshake, nowplaying and scrobble alike, a response whose
\* status code is not 2xx raises HardFailure whatever its body is, and a
\* transport exception raises RequestsError.
C23_StatusClassified ==
    (obs.op \in {"handshake", "nowplaying", "scrobble"} /\ obs.reqs # <<>>)
    => /\ obs.resp.exception => obs.exc = "RequestsError"
       /\ (~obs.resp.exception /\ obs.resp.status_code \notin 200..299)
          => obs.exc = "HardFailureError"

\* the last call was nowplaying() or scrobble(), and its HTTP exchange was
\* answered with a 2xx status
PostAnswered == Answered("nowplaying") \/ Answered("scrobble")

\* C24: nowplaying() and scrobble() classify a successful HTTP response by
\* the prefix of its body: a body beginning with OK is success, a body
\* beginning with BADSESSION raises BadSession, every other body raises
\* HardFailure.
C24_PostClassified ==
    PostAnswered
    => LET text == obs.resp.text
           begins(prefix) == /\ Len(text) >= Len(prefix)
                             /\ \A i \in 1..Len(prefix) : text[i] = prefix[i]
       IN  /\ begins(OK) => obs.exc = "None"
           /\ begins(BADSESSION) => obs.exc = "BadSessionError"
           /\ (~begins(OK) /\ ~begins(BADSESSION))
              => obs.exc = "HardFailureError"
           /\ client = obs.pre

\* a scrobble request answered with a body that goes on after OK succeeded
C24_Witness ==
    /\ Answered("scrobble")
    /\ obs.resp.text = OK \o <<"A", "Y", LF>>
    /\ obs.exc = "None"
    /\ Len(obs.reqs[1].listens) = 2

\* C25: nowplaying(listen) and scrobble(listens) called while no session is
\* stored raise BadSession (whatever the listens are), scrobble called with
\* an empty collection while a session is stored raises
\* SubmissionWithoutListens; in both cases no request is sent and the
\* object is unchanged.
C25_RefusedWithoutExchange ==
    obs.op \in {"nowplaying", "scrobble"}
    => /\ obs.pre.session = None
          => /\ obs.exc = "BadSessionError"
             /\ obs.reqs = <<>>
             /\ client = obs.pre
       /\ (obs.pre.session # None /\ obs.op = "scrobble" /\ obs.arg = <<>>)
          => /\ obs.exc = "SubmissionWithoutListensError"
             /\ obs.reqs = <<>>
             /\ client = obs.pre
       /\ (obs.pre.session # None /\ obs.arg # <<>>) => Len(obs.reqs) = 1

\* scrobble was called with an empty collection while no session was stored
C25_Witness ==
    /\ obs.op = "scrobble"
    /\ obs.arg = <<>>
    /\ obs.pre.session = None
    /\ obs.exc = "BadSessionError"

C27_IsActiveInFull ==
    obs.op = "is_active"
    => (obs.ret <=> /\ obs.pre.seconds > 0
                    /\ obs.pre.start_time # NoTime
                    /\ Delay_end(obs.pre) > obs.at)

\* C28: for a Listen of known length, eligible_for_scrobbling(reference)
\* returns true exactly when length >= 30 and the reference is absent or
\* the whole time from date to reference is >= required_play_time, which is
\* 240 when length > 480 and round(length / 2) otherwise.
C28_EligibleByWholeGap ==
    (obs.op = "eligible_for_scrobbling" /\ client.length # None)
    => LET length == client.length[2]
           required == IF length > 480 THEN 240 ELSE round_half(length)
       IN  /\ obs.exc = "None"
           /\ obs.ret <=>
                  /\ length >= 30
                  /\ \/ obs.arg = None
                     \/ /\ obs.arg # None
                        /\ obs.arg[2] - client.date >= required * UnitsPerSecond

\* C29: for a Listen whose length is absent, eligible_for_scrobbling
\* returns true for every reference, present or absent, and raises no error.
C29_EligibleWithoutLength ==
    (obs.op = "eligible_for_scrobbling" /\ client.length = None)
    => /\ obs.exc = "None"
       /\ obs.ret = TRUE

\* C30: scrobble_params(i) holds artist_name, track_title, timestamp and
\* source under a, t, i and o with index i, every present optional field
\* under its key (a present 0 included), and for an absent optional field
\* the empty string, or 0 for length; nowplaying_params holds the empty
\* string for an absent length.
C30_ParamsReadBack ==
    /\ obs.op = "scrobble_params"
       => LET read(name) == obs.ret[<<name, obs.arg>>]
              optional(name, field) ==
                  read(name) = IF field # None THEN field
                               ELSE IF name = "l" THEN int(0) ELSE str("")
          IN  /\ read("a") = client.artist_name
              /\ read("t") = client.track_title
              /\ read("i") = int(client.date \div UnitsPerSecond)
              /\ read("o") = client.source
              /\ optional("r", client.rating)
              /\ optional("l", client.length)
              /\ optional("b", client.album_title)
              /\ optional("n", client.tracknumber)
              /\ optional("m", client.mb_trackid)
    /\ (obs.op = "nowplaying_params" /\ client.length = None)
       => obs.ret[<<"l">>] = str("")

\* C31: every HTTP exchange of tick() (handshake, nowplaying, scrobble) is
\* issued with a timeout of 5 seconds, so a request that gets no answer
\* ends as RequestsError and tick() returns.
C31_EveryExchangeTimesOut ==
    obs.op = "tick"
    => /\ \A i \in 1..Len(obs.reqs) : obs.reqs[i].timeout = int(5)
       /\ obs.raised # "blocked"
       /\ (obs.reqs # <<>> /\ obs.resp = Silent) => obs.exc = "RequestsError"

\* a call of tick() is made in this step
TickStep == obs'.op = "tick" /\ obs' # obs

\* C32: a tick() in state no_session while delay.is_active holds (also with
\* np pending or listens queued), or in state idle with np absent and the
\* queue empty, sends no request and leaves every field of the engine
\* unchanged.
C32_IdleTickIsNoOp ==
    [][ (/\ TickStep
         /\ \/ /\ client.state = "no_session"
               /\ Delay_is_active(client.delay, now)
            \/ /\ client.state = "idle"
               /\ client.np = NoListen
               /\ client.queue = <<>>)
        => /\ obs'.reqs = <<>>
           /\ obs'.raised = "None"
           /\ client' = client
           /\ now' = now ]_vars

\* a tick() during the backoff did nothing although a listen was pending
\* as nowplaying and another was queued
C32_Witness ==
    /\ obs.op = "tick"
    /\ obs.reqs = <<>>
    /\ obs.pre.state = "no_session"
    /\ obs.pre.delay.seconds > 0
    /\ obs.pre.np # NoListen
    /\ obs.pre.queue # <<>>
    /\ client = obs.pre

\* C33: in state idle a tick() with np present or a queue that is not empty
\* sends the nowplaying request (np present) or the scrobble request,
\* whatever delay.is_active says; a submission that failed hard is sent
\* again by the next tick().
C33_DelayGatesHandshakesOnly ==
    [][ (/\ TickStep
         /\ client.state = "idle"
         /\ (client.np # NoListen \/ client.queue # <<>>))
        => /\ Len(obs'.reqs) = 1
           /\ obs'.reqs[1].type =
                  IF client.np # NoListen THEN "nowplaying" ELSE "scrobble"
           /\ obs'.reqs[1].listens =
                  IF client.np # NoListen THEN <<client.np>>
                  ELSE SubSeq(client.queue, 1, Min(BatchSize, Len(client.queue))) ]_vars

\* a scrobble request that had failed hard was sent again while the delay
\* was active
C33_Witness ==
    /\ TickSent("scrobble")
    /\ obs.pre.state = "idle"
    /\ obs.pre.hard_fails > 0
    /\ Delay_is_active(obs.pre.delay, now)
    /\ obs.exc = "None"

\* C34: a listen leaves the queue only in a tick() whose scrobble request
\* carried it and was answered with success; at every moment every listen
\* handed to add_listens is in the queue or was part of a request answered
\* with success, each copy exactly once.
C34_NoListenLost ==
    /\ \A l \in Listens :
           hist.added[l] = Count(client.queue, l) + hist.acked[l]
    /\ obs.op = "tick"
       => \A l \in Listens :
              Count(client.queue, l) < Count(obs.pre.queue, l)
              => /\ TickSent("scrobble")
                 /\ obs.exc = "None"
                 /\ Count(obs.pre.queue, l) - Count(client.queue, l)
                        = Count(obs.reqs[1].listens, l)

\* a request of 50 listens was answered with success while a listen of a
\* later date stayed queued, and a request before it had failed
C34_Witness ==
    /\ TickSent("scrobble")
    /\ obs.exc = "None"
    /\ Len(obs.reqs[1].listens) = 50
    /\ Len(client.queue) = 1
    /\ hist.acked[1] = 50
    /\ hist.added[NumListens] = 1
    /\ obs.pre.hard_fails > 0

\* C35: once every exchange succeeds, the host adds no more work and keeps
\* calling tick(), and time advances, the queue empties, np is cleared and
\* the state is idle, whatever hard_fails and the backoff were.
C35_EventuallyDrained ==
    hist.recovered
        ~> (client.queue = <<>> /\ client.np = NoListen /\ client.state = "idle")

\* the server recovered while the client was backing off with work pending,
\* and the work is done
C35_Witness ==
    /\ hist.recovered
    /\ hist.hard_fails >= MaxHardFails
    /\ hist.state = "no_session"
    /\ TickSent("scrobble")
    /\ obs.pre.hard_fails = 0
    /\ client.queue = <<>>
    /\ client.np = NoListen
    /\ client.state = "idle"

\* C36: in state idle a session is stored, so a request tick() issues never
\* fails the no-session pre-check (a BadSessionError comes from the server's
\* answer to a request that was sent), tick() never raises
\* SubmissionWithoutListensError, and only the HandshakeError family escapes
\* tick().
C36_IdleHasSession ==
    /\ client.state = "idle" => client.session # None
    /\ obs.op = "tick" /\ obs.exc = "BadSessionError" => obs.reqs # <<>>
    /\ obs.op = "tick" => obs.exc # "SubmissionWithoutListensError"
    /\ obs.op = "tick" => obs.raised \in HandshakeError \cup {"None"}

\* a submission from idle was sent with the stored session and the server
\* answered BADSESSION
C36_Witness ==
    /\ obs.op = "tick"
    /\ obs.pre.state = "idle"
    /\ obs.pre.session # None
    /\ obs.exc = "BadSessionError"
    /\ obs.reqs # <<>>
    /\ obs.reqs[1].s = obs.pre.session
    /\ client.state = "no_session"
    /\ client.session = None

\* C37: delay.seconds is 0 when hard_fails is 0 and
\* min(7200, 60 * 2^(hard_fails - 1)) otherwise; in state idle hard_fails is
\* at most 2 and delay.seconds at most 120; a successful nowplaying or
\* scrobble changes neither.
C37_Lockstep ==
    /\ client.delay.seconds
         = IF client.hard_fails = 0 THEN 0
           ELSE Min(DelayMax, DelayBase * 2 ^ (client.hard_fails - 1))
    /\ client.state = "idle"
       => client.hard_fails <= 2 /\ client.delay.seconds <= 120
    /\ (TickSent("nowplaying") \/ TickSent("scrobble")) /\ obs.exc = "None"
       => /\ client.hard_fails = obs.pre.hard_fails
          /\ client.delay.seconds = obs.pre.delay.seconds

\* a scrobble succeeded in idle after two failures, and both values stayed
C37_Witness ==
    /\ TickSent("scrobble")
    /\ obs.exc = "None"
    /\ client.state = "idle"
    /\ client.hard_fails = 2
    /\ client.delay.seconds = 120

\* C38: a handshake attempt, whatever its outcome, leaves delay.start_time at
\* the time the attempt completed; no other host call and no nowplaying or
\* scrobble request changes start_time; so once a handshake was attempted
\* start_time is present and is the completion time of the last attempt.
C38_StartTimeIsLastHandshake ==
    [][ /\ hist'.handshakes > hist.handshakes
           => client'.delay.start_time = now'
        /\ hist'.handshakes = hist.handshakes
           => client'.delay.start_time = client.delay.start_time
        /\ hist'.handshakes > 0 => client'.delay.start_time # NoTime ]_vars

\* a failing submission made the engine fall back from idle, some time after
\* the last handshake: the delay is armed from the handshake
C38_Witness ==
    /\ TickSubmitted
    /\ IsHardFailure(obs.exc)
    /\ obs.pre.state = "idle"
    /\ client.state = "no_session"
    /\ client.delay.start_time # NoTime
    /\ client.delay.start_time < now
    /\ client.delay.start_time = obs.pre.delay.start_time
    /\ hist.handshakes > 0

\* C39: driven by the same host calls, clock readings and server answers,
\* ScrobblerClient and LegacyScrobbler issue the same requests, let the same
\* exception escape, and agree on state, hard_fails, the length of the
\* backoff, whether a handshake is permitted now, session, queue and np.
C39_EnginesAgree ==
    /\ obs.exported = obs.legacy
    /\ client.exported.state = client.legacy.state
    /\ client.exported.hard_fails = client.legacy.hard_fails
    /\ client.exported.delay = client.legacy.delay.seconds
    /\ ScrobblerClient__allowed_to_handshake(client.exported, now)
         = ~Delay_is_active(client.legacy.delay, now)
    /\ client.exported.session = client.legacy.session
    /\ client.exported.queue = client.legacy.queue
    /\ client.exported.np = client.legacy.np

\* both engines refuse a handshake inside a backoff of two failures, with
\* work pending, after both sent the same failing handshake request
C39_Witness ==
    /\ obs.op = "tick"
    /\ obs.exported.reqs # <<>>
    /\ obs.exported.reqs[1].type = "handshake"
    /\ IsHardFailure(obs.exported.exc)
    /\ client.exported.hard_fails = 2
    /\ client.exported.delay = 120
    /\ client.exported.last_handshake # NoTime
    /\ now > client.exported.last_handshake
    /\ ~ScrobblerClient__allowed_to_handshake(client.exported, now)
    /\ client.exported.queue # <<>>
    /\ client.exported.np # NoListen

\* C40: the listens a successful scrobble removes from the queue are the
\* listens its request carried, also when add_listens ran between the
\* moment the batch was taken and the moment the callback pruned the queue.
C40_PrunesWhatWasSent ==
    TickSent("scrobble") /\ obs.exc = "None"
    => \A l \in Listens :
           Count(obs.pre.queue, l) - Count(client.queue, l)
               = Count(obs.reqs[1].listens, l)

=============================================================================
